---- MODULE Spec2Model ----
(***************************************************************************)
(* A model of crumb's encrypted secret store (pkg/storage, pkg/crypto).    *)
(* Strings are sequences of byte values, so that trimming, splitting and   *)
(* sort.Strings are computed as the Go code computes them.                 *)
(***************************************************************************)
EXTENDS Integers, Sequences, FiniteSets, TLC

----------------------------------------------------------------------------
(* Bytes the code names.                                                   *)
TAB == 9
NL == 10
SP == 32
DASH == 45
SLASH == 47
EQ == 61

(* unicode.IsSpace restricted to one-byte code points, as strings.TrimSpace uses it *)
IsSpace(c) == c \in {TAB, NL, 11, 12, 13, SP}

----------------------------------------------------------------------------
(* Go's strings package, on byte sequences.                                *)

RECURSIVE TrimLeft(_)
TrimLeft(s) == IF s # <<>> /\ IsSpace(Head(s)) THEN TrimLeft(Tail(s)) ELSE s

RECURSIVE TrimRight(_)
TrimRight(s) ==
    IF s # <<>> /\ IsSpace(s[Len(s)]) THEN TrimRight(SubSeq(s, 1, Len(s) - 1)) ELSE s

TrimSpace(s) == TrimRight(TrimLeft(s))

HasPrefix(s, prefix) ==
    /\ Len(prefix) <= Len(s)
    /\ SubSeq(s, 1, Len(prefix)) = prefix

HasSuffix(s, suffix) ==
    /\ Len(suffix) <= Len(s)
    /\ SubSeq(s, Len(s) - Len(suffix) + 1, Len(s)) = suffix

TrimPrefix(s, prefix) ==
    IF HasPrefix(s, prefix) THEN SubSeq(s, Len(prefix) + 1, Len(s)) ELSE s

TrimSuffix(s, suffix) ==
    IF HasSuffix(s, suffix) THEN SubSeq(s, 1, Len(s) - Len(suffix)) ELSE s

Contains(s, c) == \E i \in 1..Len(s) : s[i] = c

(* strings.Index for a one-byte separator; 0 when absent (Go: -1) *)
Index(s, c) == IF Contains(s, c) THEN CHOOSE i \in 1..Len(s) : s[i] = c /\ \A j \in 1..(i - 1) : s[j] # c
               ELSE 0

(* strings.Split(s, sep) for a one-byte separator: always at least one part *)
RECURSIVE Split(_, _)
Split(s, c) ==
    IF ~Contains(s, c) THEN <<s>>
    ELSE <<SubSeq(s, 1, Index(s, c) - 1)>> \o Split(SubSeq(s, Index(s, c) + 1, Len(s)), c)

(* strings.SplitN(s, sep, 2): one part without the separator, else two *)
SplitN2(s, c) ==
    IF ~Contains(s, c) THEN <<s>>
    ELSE <<SubSeq(s, 1, Index(s, c) - 1), SubSeq(s, Index(s, c) + 1, Len(s))>>

(* strings.Join(parts, sep) for a one-byte separator *)
RECURSIVE Join(_, _)
Join(parts, c) ==
    IF parts = <<>> THEN <<>>
    ELSE IF Len(parts) = 1 THEN parts[1]
    ELSE parts[1] \o <<c>> \o Join(Tail(parts), c)

(* Go's string comparison: bytewise lexicographic *)
RECURSIVE StrLess(_, _)
StrLess(a, b) ==
    IF b = <<>> THEN FALSE
    ELSE IF a = <<>> THEN TRUE
    ELSE IF Head(a) # Head(b) THEN Head(a) < Head(b)
    ELSE StrLess(Tail(a), Tail(b))

StrLeq(a, b) == a = b \/ StrLess(a, b)

(* sort.Strings: the input sequence in ascending order (insertion sort;    *)
(* equal strings are indistinguishable, so stability does not matter)      *)
RECURSIVE InsertSorted(_, _)
InsertSorted(sorted, x) ==
    IF sorted = <<>> THEN <<x>>
    ELSE IF StrLeq(x, Head(sorted)) THEN <<x>> \o sorted
    ELSE <<Head(sorted)>> \o InsertSorted(Tail(sorted), x)

RECURSIVE SortStrings(_)
SortStrings(seq) ==
    IF seq = <<>> THEN <<>>
    ELSE InsertSorted(SortStrings(SubSeq(seq, 1, Len(seq) - 1)), seq[Len(seq)])

----------------------------------------------------------------------------
(* Maps: a Go map[string]string is a function whose domain is its key set. *)

EmptyMap == [k \in {} |-> <<>>]

MapSet(m, k, v) == [x \in DOMAIN m \cup {k} |-> IF x = k THEN v ELSE m[x]]

MapDelete(m, k) == [x \in DOMAIN m \ {k} |-> m[x]]

(* The orders in which `for key := range m` may visit the keys: all of them *)
Orders(keys) ==
    {o \in [1..Cardinality(keys) -> keys] : \A i, j \in DOMAIN o : i # j => o[i] # o[j]}

----------------------------------------------------------------------------
(* pkg/storage: parsing and serialising the plaintext payload.             *)

(* mutant: the line is split at every "=", and a line with more than one is dropped *)
RECURSIVE parseLinesSplitAll(_, _)
parseLinesSplitAll(lines, n) ==
    IF n = 0 THEN EmptyMap
    ELSE LET rest == parseLinesSplitAll(lines, n - 1)
             line == TrimSpace(lines[n])
             parts == Split(line, EQ)
         IN IF line = <<>> THEN rest
            ELSE IF Len(parts) # 2 THEN rest
            ELSE MapSet(rest, TrimSpace(parts[1]), TrimSpace(parts[2]))

(* parseSecrets: the map after the lines up to n have been processed *)
RECURSIVE parseLines(_, _)
parseLines(lines, n) ==
    IF n = 0 THEN EmptyMap
    ELSE LET rest == parseLines(lines, n - 1)
             line == TrimSpace(lines[n])
             parts == SplitN2(line, EQ)
         IN IF line = <<>> THEN rest
            ELSE IF Len(parts) # 2 THEN rest
            ELSE MapSet(rest, TrimSpace(parts[1]), TrimSpace(parts[2]))

parseSecrets(content) ==
    LET lines == Split(TrimSpace(content), NL)
    IN parseLines(lines, Len(lines))

(* mutant: the lines are joined in map iteration order, without the sort *)
serializeSecretsUnsorted(secrets, order) ==
    LET lines == [i \in DOMAIN order |-> order[i] \o <<EQ>> \o secrets[order[i]]]
    IN Join(lines, NL)

(* SaveSecrets, lines 54-62: one "key=value" line per entry in map        *)
(* iteration order, sorted, joined by newlines                             *)
serializeSecrets(secrets, order) ==
    LET lines == [i \in DOMAIN order |-> order[i] \o <<EQ>> \o secrets[order[i]]]
    IN Join(SortStrings(lines), NL)

----------------------------------------------------------------------------
(* pkg/storage: listing.                                                   *)

(* mutant: matching on segment boundaries instead of string prefixes *)
matchesPathFilterBySegment(key, pathFilter) ==
    IF pathFilter = <<SLASH>> THEN TRUE
    ELSE key = pathFilter \/ HasPrefix(key, pathFilter \o <<SLASH>>)

matchesPathFilter(key, pathFilter) ==
    IF pathFilter = <<SLASH>> THEN TRUE
    ELSE HasPrefix(key, pathFilter)

(* mutant: the filter is used as given *)
normalizeFilterKeepsSlash(pathFilter) == pathFilter

(* GetFilteredKeys, lines 99-102: the filter with one trailing slash removed *)
normalizeFilter(pathFilter) ==
    IF pathFilter # <<>> /\ pathFilter # <<SLASH>> THEN TrimSuffix(pathFilter, <<SLASH>>)
    ELSE pathFilter

(* filteredKeys in the order the loop of lines 112-116 appends them *)
filterKeys(keys, pathFilter) ==
    SelectSeq(keys, LAMBDA key : matchesPathFilter(key, pathFilter))

(* `order` is the order in which the map iteration of line 105 yields the keys *)
GetFilteredKeys(secrets, pathFilter, order) ==
    LET filter == normalizeFilter(pathFilter)
        keys == IF filter # <<>> THEN filterKeys(order, filter) ELSE order
    IN SortStrings(keys)

----------------------------------------------------------------------------
(* pkg/storage: the in-memory helpers.                                     *)

NoValue == <<>>

SecretExists(secrets, key) ==
    [value |-> IF key \in DOMAIN secrets THEN secrets[key] ELSE NoValue,
     exists |-> key \in DOMAIN secrets]

SetSecret(secrets, key, value) == MapSet(secrets, key, value)

(* mutant: reports a deletion whether or not the key was there *)
DeleteSecretAlwaysTrue(secrets, key) ==
    [secrets |-> MapDelete(secrets, key), deleted |-> TRUE]

(* the map after the call, and the returned bool *)
DeleteSecret(secrets, key) ==
    IF key \in DOMAIN secrets
    THEN [secrets |-> MapDelete(secrets, key), deleted |-> TRUE]
    ELSE [secrets |-> secrets, deleted |-> FALSE]

(* mutant: the overwrite is not put to the user *)
MoveSecretUnconfirmed(secrets, oldKey, newKey, confirm) ==
    IF oldKey \notin DOMAIN secrets
    THEN [secrets |-> secrets, err |-> "old key not found"]
    ELSE [secrets |-> MapDelete(MapSet(secrets, newKey, secrets[oldKey]), oldKey),
          err |-> "nil"]

(* `confirm` is the answer crypto.ConfirmOverwrite gives when it is asked *)
MoveSecret(secrets, oldKey, newKey, confirm) ==
    IF oldKey \notin DOMAIN secrets
    THEN [secrets |-> secrets, err |-> "old key not found"]
    ELSE IF newKey \in DOMAIN secrets /\ ~confirm
    THEN [secrets |-> secrets, err |-> "operation cancelled"]
    ELSE [secrets |-> MapDelete(MapSet(secrets, newKey, secrets[oldKey]), oldKey),
          err |-> "nil"]

----------------------------------------------------------------------------
(* pkg/crypto: age encryption, as an opaque sealed box.  A ciphertext is   *)
(* never zero-length; it opens only with the identity of its recipient;    *)
(* the nonce stands for age's per-message randomness.                      *)

EncryptData(data, recipient, nonce) ==
    <<[rcpt |-> recipient, nonce |-> nonce, plain |-> data, whole |-> TRUE]>>

(* what a write that fails part-way leaves of a ciphertext: a strict prefix *)
Prefixes(encryptedData) ==
    {<<>>} \cup {<<[encryptedData[1] EXCEPT !.whole = FALSE]>>}

(* the code's (string, error) result *)
DecryptData(encryptedData, identity) ==
    IF Len(encryptedData) = 1 /\ encryptedData[1].whole /\ encryptedData[1].rcpt = identity
    THEN [data |-> encryptedData[1].plain, err |-> "nil"]
    ELSE [data |-> <<>>, err |-> "failed to decrypt data"]

(* A key file that does not parse (ParseSSHPublicKey / ParseSSHPrivateKey  *)
(* return an error) is key 0; key pairs are numbered from 1.               *)
BadKey == 0

----------------------------------------------------------------------------
(* pkg/crypto, pkg/storage: the storage file, one call running alone.      *)

(* WriteFileWithLock: `fail` is the step that fails ("none", "open",       *)
(* "lock", "write"), `left` what a failing write leaves of the data.       *)
(* O_TRUNC empties the file when it is opened.                             *)
WriteFileWithLock(f, data, fail, left) ==
    IF fail = "open" THEN [file |-> f, err |-> "failed to open file"]
    ELSE IF fail = "lock"
    THEN [file |-> [exists |-> TRUE, data |-> <<>>], err |-> "failed to lock file"]
    ELSE IF fail = "write"
    THEN [file |-> [exists |-> TRUE, data |-> left], err |-> "failed to write data"]
    ELSE [file |-> [exists |-> TRUE, data |-> data], err |-> "nil"]

(* ReadFileWithLock on an existing file; `fail` is "none", "open", "lock" or "read" *)
ReadFileWithLock(f, fail) ==
    IF ~f.exists \/ fail = "open" THEN [data |-> <<>>, err |-> "failed to open file"]
    ELSE IF fail = "lock" THEN [data |-> <<>>, err |-> "failed to lock file"]
    ELSE IF fail = "read" THEN [data |-> <<>>, err |-> "failed to read file"]
    ELSE [data |-> f.data, err |-> "nil"]

(* mutant: a zero-length file is handed to the decryption like any other *)
decodeSecretsNoEmptyCheck(encryptedData, identity) ==
    IF DecryptData(encryptedData, identity).err # "nil"
    THEN [secrets |-> EmptyMap, err |-> "failed to decrypt secrets"]
    ELSE [secrets |-> parseSecrets(DecryptData(encryptedData, identity).data),
          err |-> "nil"]

(* LoadSecrets, lines 32-43: from the bytes read to the map returned *)
decodeSecrets(encryptedData, identity) ==
    IF Len(encryptedData) = 0 THEN [secrets |-> EmptyMap, err |-> "nil"]
    ELSE IF DecryptData(encryptedData, identity).err # "nil"
    THEN [secrets |-> EmptyMap, err |-> "failed to decrypt secrets"]
    ELSE [secrets |-> parseSecrets(DecryptData(encryptedData, identity).data),
          err |-> "nil"]

(* LoadSecrets; a nil map is returned with every error *)
LoadSecrets(f, identity, fail) ==
    IF ~f.exists THEN [secrets |-> EmptyMap, err |-> "nil"]
    ELSE IF identity = BadKey
    THEN [secrets |-> EmptyMap, err |-> "failed to parse private key"]
    ELSE IF ReadFileWithLock(f, fail).err # "nil"
    THEN [secrets |-> EmptyMap, err |-> "failed to read secrets file"]
    ELSE decodeSecrets(ReadFileWithLock(f, fail).data, identity)

(* SaveSecrets: the file afterwards and the error returned *)
SaveSecrets(secrets, recipient, f, nonce, order, fail, left) ==
    IF recipient = BadKey
    THEN [file |-> f, err |-> "failed to parse public key as recipient"]
    ELSE WriteFileWithLock(
             f, EncryptData(serializeSecrets(secrets, order), recipient, nonce), fail, left)

CreateEmptySecretsFile(recipient, f, nonce, fail, left) ==
    IF recipient = BadKey
    THEN [file |-> f, err |-> "failed to parse public key as recipient"]
    ELSE WriteFileWithLock(f, EncryptData(<<>>, recipient, nonce), fail, left)

----------------------------------------------------------------------------
(* pkg/crypto: a file handle.  The deferred calls of ReadFileWithLock and  *)
(* WriteFileWithLock run last-registered first when the function returns:  *)
(* the unlock (registered only once the lock is held), then the Close.     *)

(* mutant: the handle is closed without the deferred unlock *)
deferredStepCloseOnly(h) == "Closed"

(* the handle state the next deferred call leaves *)
deferredStep(h) == IF h = "Locked" THEN "Unlocked" ELSE "Closed"

(* unix.Flock: the request can be granted when no other open file          *)
(* description holds a conflicting lock                                    *)
canLock(mode, others) ==
    IF mode = "ex" THEN \A q \in DOMAIN others : others[q] = "none"
    ELSE \A q \in DOMAIN others : others[q] # "ex"

----------------------------------------------------------------------------
(* pkg/storage, pkg/commands: environment variable names and the export.   *)

UNDERSCORE == 95

(* strings.ToUpper, on ASCII letters *)
ToUpper(s) == [i \in DOMAIN s |-> IF s[i] \in 97..122 THEN s[i] - 32 ELSE s[i]]

(* strings.ReplaceAll for a one-byte old and a one-byte new *)
ReplaceAll(s, old, new) == [i \in DOMAIN s |-> IF s[i] = old THEN new ELSE s[i]]

(* ExtractVarName: the last segment, "-" to "_", upper case *)
ExtractVarName(keyPath) ==
    LET trimmed == TrimPrefix(keyPath, <<SLASH>>)
        pathSegments == Split(trimmed, SLASH)
    IN ToUpper(ReplaceAll(pathSegments[Len(pathSegments)], DASH, UNDERSCORE))

(* GetSecretsForPath: the entries whose path has the prefix as a string prefix *)
GetSecretsForPath(secrets, pathPrefix) ==
    LET prefix == TrimSuffix(pathPrefix, <<SLASH>>)
    IN [secretPath \in {k \in DOMAIN secrets : HasPrefix(k, prefix)} |-> secrets[secretPath]]

(* ConvertPathToEnvVar: the last segment of what follows the prefix *)
ConvertPathToEnvVar(secretPath, pathPrefix) ==
    LET remainingPath == TrimPrefix(TrimPrefix(secretPath, pathPrefix), <<SLASH>>)
        pathSegments == Split(remainingPath, SLASH)
    IN ToUpper(ReplaceAll(pathSegments[Len(pathSegments)], DASH, UNDERSCORE))

(* ExportCommand, lines 835-838: the name a path_sync secret is exported under *)
pathSyncKeyName(secretPath, pathPrefix) ==
    LET keyName == TrimPrefix(TrimPrefix(secretPath, pathPrefix), <<SLASH>>)
    IN ReplaceAll(ToUpper(ReplaceAll(keyName, SLASH, UNDERSCORE)), DASH, UNDERSCORE)

(* ExportCommand, lines 850, 858, 859: "-" to "_", upper case *)
sanitizedName(name) == ToUpper(ReplaceAll(name, DASH, UNDERSCORE))

(* ExportCommand, lines 803-808: envVars after the first n secrets of the  *)
(* iteration over pathSecrets                                              *)
RECURSIVE pathFlagLoop(_, _, _, _)
pathFlagLoop(pathSecrets, pathPrefix, order, n) ==
    IF n = 0 THEN EmptyMap
    ELSE LET envVars == pathFlagLoop(pathSecrets, pathPrefix, order, n - 1)
             keyName == ConvertPathToEnvVar(order[n], pathPrefix)
         IN IF keyName # <<>> THEN MapSet(envVars, keyName, pathSecrets[order[n]])
            ELSE envVars

(* ExportCommand, lines 833-843 *)
RECURSIVE pathSyncLoop(_, _, _, _)
pathSyncLoop(pathSecrets, pathPrefix, order, n) ==
    IF n = 0 THEN EmptyMap
    ELSE LET envVars == pathSyncLoop(pathSecrets, pathPrefix, order, n - 1)
             keyName == pathSyncKeyName(order[n], pathPrefix)
         IN IF keyName # <<>> THEN MapSet(envVars, keyName, pathSecrets[order[n]])
            ELSE envVars

(* an env section that leaves a name the prefix expansion already set *)
RECURSIVE envLoopKeepsExisting(_, _, _, _, _)
envLoopKeepsExisting(secrets, Env, envVars0, order, n) ==
    IF n = 0 THEN envVars0
    ELSE LET envVars == envLoopKeepsExisting(secrets, Env, envVars0, order, n - 1)
             found == SecretExists(secrets, Env[order[n]].Path)
         IN IF found.exists /\ sanitizedName(order[n]) \notin DOMAIN envVars0
            THEN MapSet(envVars, sanitizedName(order[n]), found.value)
            ELSE envVars

(* ExportCommand, lines 847-853: the env section, entered with envVars0 *)
RECURSIVE envLoop(_, _, _, _, _)
envLoop(secrets, Env, envVars0, order, n) ==
    IF n = 0 THEN envVars0
    ELSE LET envVars == envLoop(secrets, Env, envVars0, order, n - 1)
             found == SecretExists(secrets, Env[order[n]].Path)
         IN IF found.exists THEN MapSet(envVars, sanitizedName(order[n]), found.value)
            ELSE envVars

(* ExportCommand, lines 856-865: the remap, entered with envVars0 *)
RECURSIVE remapLoop(_, _, _, _)
remapLoop(Remap, envVars0, order, n) ==
    IF n = 0 THEN envVars0
    ELSE LET envVars == remapLoop(Remap, envVars0, order, n - 1)
             sanitizedOriginalKey == sanitizedName(order[n])
             sanitizedNewKey == sanitizedName(Remap[order[n]])
         IN IF sanitizedOriginalKey \in DOMAIN envVars
            THEN MapDelete(MapSet(envVars, sanitizedNewKey, envVars[sanitizedOriginalKey]),
                           sanitizedOriginalKey)
            ELSE envVars

(* ExportCommand, lines 790-802 and 831-832: the secrets the first loop    *)
(* ranges over; none when neither --path nor path_sync.path is given       *)
exportPathSecrets(secrets, pathFlag, crumbConfig) ==
    IF pathFlag # <<>>
    THEN GetSecretsForPath(secrets, TrimSuffix(pathFlag, <<SLASH>>))
    ELSE IF crumbConfig.PathSync.Path # <<>>
    THEN GetSecretsForPath(secrets, TrimSuffix(crumbConfig.PathSync.Path, <<SLASH>>))
    ELSE EmptyMap

(* ExportCommand, lines 786-866: envVars after the path loop, after the    *)
(* env section and after the remap; each loop visits its map in the order  *)
(* given                                                                   *)
exportResolve(secrets, pathFlag, crumbConfig, pathOrder, envOrder, remapOrder) ==
    LET pathSecrets == exportPathSecrets(secrets, pathFlag, crumbConfig)
    IN IF pathFlag # <<>>
       THEN LET envVars == pathFlagLoop(pathSecrets, TrimSuffix(pathFlag, <<SLASH>>),
                                        pathOrder, Len(pathOrder))
            IN [afterPath |-> envVars, afterEnv |-> envVars, envVars |-> envVars]
       ELSE LET afterPath ==
                    IF crumbConfig.PathSync.Path # <<>>
                    THEN pathSyncLoop(pathSecrets,
                                      TrimSuffix(crumbConfig.PathSync.Path, <<SLASH>>),
                                      pathOrder, Len(pathOrder))
                    ELSE EmptyMap
                afterEnv == envLoop(secrets, crumbConfig.Env, afterPath, envOrder,
                                    Len(envOrder))
            IN [afterPath |-> afterPath,
                afterEnv |-> afterEnv,
                envVars |-> remapLoop(crumbConfig.PathSync.Remap, afterEnv, remapOrder,
                                      Len(remapOrder))]

(* "export " and "set -x " *)
ExportWord == <<101, 120, 112, 111, 114, 116, SP>>
SetXWord == <<115, 101, 116, SP, DASH, 120, SP>>

(* ExportCommand, lines 883-888: what is printed for one key; a shell      *)
(* other than bash and fish prints nothing                                 *)
exportLine(shell, key, value) ==
    IF shell = "bash" THEN ExportWord \o key \o <<EQ>> \o value \o <<NL>>
    ELSE IF shell = "fish" THEN SetXWord \o key \o <<SP>> \o value \o <<NL>>
    ELSE <<>>

(* mutant: the keys are printed in map iteration order *)
exportKeysUnsorted(keyOrder) == keyOrder

(* ExportCommand, lines 874-878: the keys collected in map iteration order, sorted *)
exportKeys(keyOrder) == SortStrings(keyOrder)

(* ExportCommand, lines 869-891: the error returned, the keys in the order *)
(* they are printed in, and the lines printed                              *)
exportOutput(envVars, keyOrder, shell) ==
    IF Cardinality(DOMAIN envVars) = 0
    THEN [err |-> "no secrets found to export", keys |-> <<>>, printed |-> <<>>]
    ELSE LET keys == exportKeys(keyOrder)
         IN [err |-> "nil",
             keys |-> keys,
             printed |-> [i \in DOMAIN keys |-> exportLine(shell, keys[i], envVars[keys[i]])]]

(* pkg/config ValidateKeyPath: "nil" or the error *)
ValidateKeyPath(keyPath) ==
    IF keyPath = <<>> THEN "key path cannot be empty"
    ELSE IF ~HasPrefix(keyPath, <<SLASH>>) THEN "key path must start with '/'"
    ELSE IF Contains(keyPath, SP) THEN "key path cannot contain spaces"
    ELSE IF Contains(keyPath, EQ) THEN "key path cannot contain '=' character"
    ELSE IF Contains(keyPath, NL) THEN "key path cannot contain newlines"
    ELSE IF Contains(keyPath, TAB) THEN "key path cannot contain tabs"
    ELSE "nil"

(* what a command that printed no variable leaves as its result *)
NoExport ==
    [shell |-> "", afterPath |-> EmptyMap, afterEnv |-> EmptyMap, envVars |-> EmptyMap,
     keys |-> <<>>, printed |-> <<>>]

(* ExportCommand.  `fail` names the call that fails: "config" (LoadConfig), *)
(* "read" (LoadSecrets), "crumb" (LoadCrumbConfig, config mode only) or    *)
(* "none".  The result: the map loaded, the error returned, the variables  *)
(* resolved and the lines printed.                                         *)
ExportCommand(f, identity, crumbConfig, pathFlag, shell, fail, pathOrder, envOrder, remapOrder, keyOrder) ==
    LET loaded == LoadSecrets(f, identity, IF fail = "read" THEN "read" ELSE "none")
        resolved == exportResolve(loaded.secrets, pathFlag, crumbConfig, pathOrder,
                                  envOrder, remapOrder)
        output == exportOutput(resolved.envVars, keyOrder, shell)
    IN IF fail = "config"
       THEN [secrets |-> EmptyMap, err |-> "failed to read config file", out |-> NoExport]
       ELSE IF loaded.err # "nil"
       THEN [secrets |-> EmptyMap, err |-> loaded.err, out |-> NoExport]
       ELSE IF pathFlag = <<>> /\ fail = "crumb"
       THEN [secrets |-> loaded.secrets, err |-> "failed to read crumb config",
             out |-> NoExport]
       ELSE [secrets |-> loaded.secrets,
             err |-> output.err,
             out |-> [shell |-> shell,
                      afterPath |-> resolved.afterPath,
                      afterEnv |-> resolved.afterEnv,
                      envVars |-> resolved.envVars,
                      keys |-> output.keys,
                      printed |-> output.printed]]

(* GetCommand with --export: the variable name is ExtractVarName of the    *)
(* key path; without --export the value or "****" is printed               *)
GetCommand(f, identity, keyPath, showValue, exportFormat, shell, fail) ==
    LET loaded == LoadSecrets(f, identity, IF fail = "read" THEN "read" ELSE "none")
        found == SecretExists(loaded.secrets, keyPath)
        varName == ExtractVarName(keyPath)
        none == [varName |-> <<>>, printed |-> <<>>, note |-> ""]
    IN IF ValidateKeyPath(keyPath) # "nil"
       THEN [secrets |-> EmptyMap, err |-> ValidateKeyPath(keyPath), out |-> none]
       ELSE IF fail = "config"
       THEN [secrets |-> EmptyMap, err |-> "failed to read config file", out |-> none]
       ELSE IF loaded.err # "nil"
       THEN [secrets |-> EmptyMap, err |-> loaded.err, out |-> none]
       ELSE IF ~found.exists
       THEN [secrets |-> loaded.secrets, err |-> "nil",
             out |-> [none EXCEPT !.note = "Key not found."]]
       ELSE IF exportFormat
       THEN IF shell \in {"bash", "fish"}
            THEN [secrets |-> loaded.secrets, err |-> "nil",
                  out |-> [varName |-> varName,
                           printed |-> <<exportLine(shell, varName, found.value)>>,
                           note |-> ""]]
            ELSE [secrets |-> loaded.secrets, err |-> "unsupported shell format",
                  out |-> none]
       ELSE IF showValue
       THEN [secrets |-> loaded.secrets, err |-> "nil",
             out |-> [none EXCEPT !.printed = <<found.value \o <<NL>>>>]]
       ELSE [secrets |-> loaded.secrets, err |-> "nil",
             out |-> [none EXCEPT !.note = "****"]]

----------------------------------------------------------------------------
(* pkg/commands: the commands that write the store.  Each takes the store  *)
(* file, the keys of the profile, its arguments, what the user answers at  *)
(* the prompt, the call that fails ("none", "config" for LoadConfig,       *)
(* "read" for LoadSecrets) and, for the save, the nonce and the iteration  *)
(* order of the map.  The result: the file afterwards, the error returned, *)
(* the number of SaveSecrets / CreateEmptySecretsFile calls made, and      *)
(* whether the command stopped at a prompt the user did not confirm.       *)

(* strings.ToLower, on ASCII letters *)
ToLower(s) == [i \in DOMAIN s |-> IF s[i] \in 65..90 THEN s[i] + 32 ELSE s[i]]

(* mutant: every answer counts as a yes *)
ConfirmOverwriteAlways(response) == TRUE

(* crypto.ConfirmOverwrite: one byte read from the terminal; <<>> when the *)
(* terminal cannot be read                                                 *)
ConfirmOverwrite(response) == response = <<121>> \/ response = <<89>>

CmdError(f, e) == [file |-> f, err |-> e, saves |-> 0, declined |-> FALSE]
CmdCancelled(f, e) == [file |-> f, err |-> e, saves |-> 0, declined |-> TRUE]
CmdSaved(written) == [file |-> written.file, err |-> written.err, saves |-> 1, declined |-> FALSE]

(* the part every command starts with: LoadConfig, then LoadSecrets *)
(* a load whose error is dropped *)
CmdLoadIgnoresError(f, identity, fail) ==
    [secrets |-> LoadSecrets(f, identity, IF fail = "read" THEN "read" ELSE "none").secrets,
     err |-> "nil"]

CmdLoad(f, identity, fail) ==
    IF fail = "config"
    THEN [secrets |-> EmptyMap, err |-> "configuration not found"]
    ELSE LoadSecrets(f, identity, IF fail = "read" THEN "read" ELSE "none")

SetCommand(f, identity, recipient, keyPath, value, response, fail, nonce, order) ==
    LET loaded == CmdLoad(f, identity, fail)
    IN IF ValidateKeyPath(keyPath) # "nil" THEN CmdError(f, ValidateKeyPath(keyPath))
       ELSE IF loaded.err # "nil" THEN CmdError(f, loaded.err)
       ELSE IF SecretExists(loaded.secrets, keyPath).exists /\ ~ConfirmOverwrite(response)
       THEN CmdCancelled(f, "nil")
       ELSE CmdSaved(SaveSecrets(SetSecret(loaded.secrets, keyPath, value), recipient, f,
                                 nonce, order, "none", <<>>))

DeleteCommand(f, identity, recipient, keyPath, typed, fail, nonce, order) ==
    LET loaded == CmdLoad(f, identity, fail)
        confirmation == TrimSpace(typed)
    IN IF ValidateKeyPath(keyPath) # "nil" THEN CmdError(f, ValidateKeyPath(keyPath))
       ELSE IF loaded.err # "nil" THEN CmdError(f, loaded.err)
       ELSE IF ~SecretExists(loaded.secrets, keyPath).exists THEN CmdError(f, "nil")
       ELSE IF confirmation # keyPath THEN CmdCancelled(f, "nil")
       ELSE IF ~DeleteSecret(loaded.secrets, keyPath).deleted THEN CmdError(f, "nil")
       ELSE CmdSaved(SaveSecrets(DeleteSecret(loaded.secrets, keyPath).secrets, recipient, f,
                                 nonce, order, "none", <<>>))

MoveCommand(f, identity, recipient, oldKeyPath, newKeyPath, response, fail, nonce, order) ==
    LET loaded == CmdLoad(f, identity, fail)
        moved == MoveSecret(loaded.secrets, oldKeyPath, newKeyPath, ConfirmOverwrite(response))
    IN IF ValidateKeyPath(oldKeyPath) # "nil" THEN CmdError(f, "invalid old key path")
       ELSE IF ValidateKeyPath(newKeyPath) # "nil" THEN CmdError(f, "invalid new key path")
       ELSE IF loaded.err # "nil" THEN CmdError(f, loaded.err)
       ELSE IF moved.err # "nil"
       THEN IF SecretExists(loaded.secrets, oldKeyPath).exists
            THEN CmdCancelled(f, moved.err)
            ELSE CmdError(f, moved.err)
       ELSE CmdSaved(SaveSecrets(moved.secrets, recipient, f, nonce, order, "none", <<>>))

(* ImportCommand.  `envVars` is the map storage.ParseEnvFile returns for   *)
(* the --file given ("envfile" fails that call); `response` is the line    *)
(* typed at "Continue with import?"                                        *)
(* parseEnvContent, the value with one pair of enclosing quotes removed *)
unquote(value) ==
    IF Len(value) >= 2 /\ \/ (HasPrefix(value, <<34>>) /\ HasSuffix(value, <<34>>))
                          \/ (HasPrefix(value, <<39>>) /\ HasSuffix(value, <<39>>))
    THEN SubSeq(value, 2, Len(value) - 1)
    ELSE value

(* parseEnvContent: the map after the lines up to n have been processed *)
RECURSIVE parseEnvLines(_, _)
parseEnvLines(lines, n) ==
    IF n = 0 THEN EmptyMap
    ELSE LET envVars == parseEnvLines(lines, n - 1)
             line == TrimSpace(lines[n])
             eqIndex == Index(line, EQ)
             key == TrimSpace(SubSeq(line, 1, eqIndex - 1))
             value == TrimSpace(SubSeq(line, eqIndex + 1, Len(line)))
         IN IF line = <<>> \/ HasPrefix(line, <<35>>) THEN envVars
            ELSE IF eqIndex = 0 THEN envVars
            ELSE IF key # <<>> THEN MapSet(envVars, key, unquote(value))
            ELSE envVars

parseEnvContent(content) == parseEnvLines(Split(content, NL), Len(Split(content, NL)))

importKeyPath(basePath, envKey) == TrimSuffix(basePath, <<SLASH>>) \o <<SLASH>> \o envKey

importSecrets(secrets, basePath, envVars) ==
    LET imported == {importKeyPath(basePath, envKey) : envKey \in DOMAIN envVars}
        envKeyOf(path) == CHOOSE envKey \in DOMAIN envVars : importKeyPath(basePath, envKey) = path
    IN [path \in DOMAIN secrets \cup imported |->
           IF path \in imported THEN envVars[envKeyOf(path)] ELSE secrets[path]]

ImportCommand(f, identity, recipient, basePath, envVars, response, fail, nonce, order) ==
    LET loaded == CmdLoad(f, identity, fail)
        conflicts == {envKey \in DOMAIN envVars :
                         SecretExists(loaded.secrets, importKeyPath(basePath, envKey)).exists}
        answer == TrimSpace(ToLower(response))
    IN IF basePath = <<>> THEN CmdError(f, "--path flag is required")
       ELSE IF ValidateKeyPath(basePath) # "nil" THEN CmdError(f, "invalid path")
       ELSE IF fail = "envfile" THEN CmdError(f, "failed to read env file")
       ELSE IF Cardinality(DOMAIN envVars) = 0 THEN CmdError(f, "nil")
       ELSE IF loaded.err # "nil" THEN CmdError(f, loaded.err)
       ELSE IF conflicts # {} /\ answer # <<121>> /\ answer # <<121, 101, 115>>
       THEN CmdCancelled(f, "nil")
       ELSE CmdSaved(SaveSecrets(importSecrets(loaded.secrets, basePath, envVars), recipient,
                                 f, nonce, order, "none", <<>>))

(* SetupCommand.  `publicKey` is the key pair entered at the prompts       *)
(* (BadKey: ValidateSSHKeys rejects it); `fail` is "none", "mkdir",        *)
(* "prompt" or "saveconfig".  The command asks nothing about an existing   *)
(* storage file before CreateEmptySecretsFile writes it.                   *)
SetupCommand(f, publicKey, fail, nonce) ==
    IF fail = "mkdir" THEN CmdError(f, "failed to create config directory")
    ELSE IF fail = "prompt" THEN CmdError(f, "failed to read input")
    ELSE IF publicKey = BadKey THEN CmdError(f, "invalid or missing SSH key pair")
    ELSE IF fail = "saveconfig" THEN CmdError(f, "failed to write config file")
    ELSE CmdSaved(CreateEmptySecretsFile(publicKey, f, nonce, "none", <<>>))

----------------------------------------------------------------------------
(* State.                                                                  *)

VARIABLES
    file,       \* the storage file: [exists, data], data = <<>> is a zero-length file
    secrets,    \* the caller's in-memory map[string]string
    pre,        \* the map handed to the last operation (empty if it takes none)
    op,         \* the last operation called and its arguments
    err,        \* the error the last operation returned, "nil" for none
    ret,        \* the value the last operation returned
    saved,      \* the map and recipient of the last SaveSecrets that the file still holds
    muts,       \* how many times the caller changed its map since it last loaded it
    content,    \* the plaintext payload handed to ParseSecrets
    crumbConfig, \* the project's .crumb.yaml: [PathSync: [Path, Remap], Env]
    kind,       \* per process: the call it makes, "read" or "write"
    pc,         \* per process: where it is in ReadFileWithLock / WriteFileWithLock
    handle,     \* per process: the state of its file handle
    held,       \* per process: the flock it holds on the file: "none", "sh", "ex"
    buf,        \* per process: the bytes to write, or the bytes read
    perr        \* per process: the error its call returns

memVars == <<secrets, pre, op, err, ret>>
lockVars == <<kind, pc, handle, held, buf, perr>>
storeVars == <<file, saved, muts>>
vars == <<file, secrets, pre, op, err, ret, saved, muts, content, crumbConfig, kind, pc,
          handle, held, buf, perr>>

NoFile == [exists |-> FALSE, data |-> <<>>]
NoCrumbConfig == [PathSync |-> [Path |-> <<>>, Remap |-> EmptyMap], Env |-> EmptyMap]
NoOp ==
    [name |-> "none", k1 |-> <<>>, k2 |-> <<>>, v |-> <<>>, yes |-> FALSE, id |-> 0,
     fail |-> "none"]
NoRet == [value |-> NoValue, exists |-> FALSE]
NoProcs == [p \in {} |-> "none"]
NotSaved == [valid |-> FALSE, secrets |-> EmptyMap, rcpt |-> 0]

Op(name, k1, k2, v, yes) ==
    [NoOp EXCEPT !.name = name, !.k1 = k1, !.k2 = k2, !.v = v, !.yes = yes]

(* an operation on the storage file: the key it uses and the file step that fails *)
OpKey(name, id, fail) == [NoOp EXCEPT !.name = name, !.id = id, !.fail = fail]

----------------------------------------------------------------------------
(* Spec: the in-memory helpers and the listing, called in any order on one *)
(* map.  The paths are valid key paths (config.ValidateKeyPath); "/ab/c"   *)
(* has "/a" as a string prefix without being under the segment "/a".       *)

PathA == <<SLASH, 97>>
PathAB == <<SLASH, 97, SLASH, 98>>
PathABC == <<SLASH, 97, 98, SLASH, 99>>
PathB == <<SLASH, 98>>
Paths == {PathA, PathAB, PathABC, PathB}

ValX == <<120>>
ValY == <<121>>
Vals == {ValX, ValY}

(* path filters: empty, root, prefixes with and without a trailing slash,  *)
(* a double slash, and filters no path has as a prefix                     *)
Filters ==
    {<<>>, <<SLASH>>, <<SLASH, SLASH>>, PathA, PathA \o <<SLASH>>, PathAB,
     PathAB \o <<SLASH>>, PathAB \o <<SLASH, SLASH>>, <<SLASH, 97, 98>>, PathB,
     PathB \o <<SLASH>>, <<SLASH, 99>>, <<97>>}

(* no process is modelled at the level of its file handle *)
LockIdle ==
    /\ kind = NoProcs /\ pc = NoProcs /\ handle = NoProcs
    /\ held = NoProcs /\ buf = NoProcs /\ perr = NoProcs

MemInit ==
    /\ secrets = EmptyMap
    /\ pre = EmptyMap
    /\ op = NoOp
    /\ err = "nil"
    /\ ret = NoRet

Init ==
    /\ MemInit
    /\ file = NoFile
    /\ saved = NotSaved
    /\ muts = 0
    /\ content = <<>>
    /\ crumbConfig = NoCrumbConfig
    /\ LockIdle

DoSecretExists(key) ==
    /\ op' = Op("SecretExists", key, <<>>, <<>>, FALSE)
    /\ pre' = secrets
    /\ ret' = SecretExists(secrets, key)
    /\ err' = "nil"
    /\ UNCHANGED secrets

DoSetSecret(key, value) ==
    /\ op' = Op("SetSecret", key, <<>>, value, FALSE)
    /\ pre' = secrets
    /\ secrets' = SetSecret(secrets, key, value)
    /\ ret' = NoRet
    /\ err' = "nil"

DoDeleteSecret(key) ==
    /\ op' = Op("DeleteSecret", key, <<>>, <<>>, FALSE)
    /\ pre' = secrets
    /\ secrets' = DeleteSecret(secrets, key).secrets
    /\ ret' = [value |-> NoValue, exists |-> DeleteSecret(secrets, key).deleted]
    /\ err' = "nil"

DoMoveSecret(oldKey, newKey, confirm) ==
    /\ op' = Op("MoveSecret", oldKey, newKey, <<>>, confirm)
    /\ pre' = secrets
    /\ secrets' = MoveSecret(secrets, oldKey, newKey, confirm).secrets
    /\ err' = MoveSecret(secrets, oldKey, newKey, confirm).err
    /\ ret' = NoRet

DoGetFilteredKeys(pathFilter, order) ==
    /\ op' = Op("GetFilteredKeys", pathFilter, <<>>, <<>>, FALSE)
    /\ pre' = secrets
    /\ ret' = [value |-> GetFilteredKeys(secrets, pathFilter, order), exists |-> FALSE]
    /\ err' = "nil"
    /\ UNCHANGED secrets

Next ==
    \/ \E key \in Paths : DoSecretExists(key) /\ UNCHANGED <<storeVars, content, crumbConfig, lockVars>>
    \/ \E key \in Paths, value \in Vals :
          DoSetSecret(key, value) /\ UNCHANGED <<storeVars, content, crumbConfig, lockVars>>
    \/ \E key \in Paths : DoDeleteSecret(key) /\ UNCHANGED <<storeVars, content, crumbConfig, lockVars>>
    \/ \E oldKey \in Paths, newKey \in Paths, confirm \in BOOLEAN :
          DoMoveSecret(oldKey, newKey, confirm) /\ UNCHANGED <<storeVars, content, crumbConfig, lockVars>>
    \/ \E pathFilter \in Filters, order \in Orders(DOMAIN secrets) :
          DoGetFilteredKeys(pathFilter, order) /\ UNCHANGED <<storeVars, content, crumbConfig, lockVars>>

Spec == Init /\ [][Next]_vars

----------------------------------------------------------------------------
(* Claims about the in-memory helpers and the listing (checked under Spec). *)

Others(a, b, except) == ((DOMAIN a) \cup (DOMAIN b)) \ except

SameAt(a, b, q) == q \in DOMAIN a /\ q \in DOMAIN b /\ a[q] = b[q]

(* C5: a MoveSecret whose oldKey is present and whose newKey is absent or  *)
(* confirmed (newKey = oldKey included) returns nil, leaves newKey with    *)
(* oldKey's value, removes oldKey when it differs, and changes no other    *)
(* path.                                                                   *)
C5_MovePreservesValue ==
    (/\ op.name = "MoveSecret"
     /\ op.k1 \in DOMAIN pre
     /\ (op.k2 \notin DOMAIN pre \/ op.yes))
    => /\ err = "nil"
       /\ op.k2 \in DOMAIN secrets
       /\ secrets[op.k2] = pre[op.k1]
       /\ (op.k1 # op.k2 => op.k1 \notin DOMAIN secrets)
       /\ \A q \in Others(pre, secrets, {op.k1, op.k2}) : SameAt(pre, secrets, q)

(* C6: MoveSecret returns an error exactly when oldKey is absent or when   *)
(* newKey is present and the confirmation is refused, and then the map is  *)
(* unchanged.                                                              *)
C6_MoveErrorExactly ==
    op.name = "MoveSecret"
    => /\ (err # "nil") <=> (\/ op.k1 \notin DOMAIN pre
                             \/ (op.k2 \in DOMAIN pre /\ ~op.yes))
       /\ (op.k1 \notin DOMAIN pre => err = "old key not found")
       /\ (op.k1 \in DOMAIN pre /\ op.k2 \in DOMAIN pre /\ ~op.yes
             => err = "operation cancelled")
       /\ (err # "nil" => secrets = pre)

C6_Witness ==
    /\ op.name = "MoveSecret"
    /\ err = "operation cancelled"
    /\ op.k1 # op.k2
    /\ secrets = pre
    /\ pre[op.k1] # pre[op.k2]

(* C7: after SetSecret(p, v) SecretExists(p) is (v, true); DeleteSecret(p) *)
(* returns true iff p was present and leaves p absent; both leave every    *)
(* other path as it was, and deleting an absent path changes nothing.      *)
C7_CrudFrame ==
    /\ op.name = "SetSecret"
       => /\ SecretExists(secrets, op.k1) = [value |-> op.v, exists |-> TRUE]
          /\ \A q \in Paths \ {op.k1} : SecretExists(secrets, q) = SecretExists(pre, q)
          /\ DOMAIN secrets \subseteq DOMAIN pre \cup {op.k1}
    /\ op.name = "DeleteSecret"
       => /\ ret.exists <=> op.k1 \in DOMAIN pre
          /\ ~SecretExists(secrets, op.k1).exists
          /\ \A q \in Paths \ {op.k1} : SecretExists(secrets, q) = SecretExists(pre, q)
          /\ DOMAIN secrets \subseteq DOMAIN pre
          /\ (op.k1 \notin DOMAIN pre => secrets = pre)
    /\ op.name = "SecretExists"
       => /\ secrets = pre
          /\ ret.exists <=> op.k1 \in DOMAIN pre
          /\ (ret.exists => ret.value = pre[op.k1])

C7_Witness ==
    /\ op.name = "DeleteSecret"
    /\ ret.exists
    /\ Cardinality(DOMAIN secrets) = 2
    /\ Cardinality(DOMAIN pre) = 3

(* the claim's reading of a filter: one trailing slash dropped *)
C8_Normalized(f) == IF f # <<>> /\ f[Len(f)] = SLASH THEN SubSeq(f, 1, Len(f) - 1) ELSE f

C8_Matches(key, f) ==
    IF f = <<>> \/ f = <<SLASH>> THEN TRUE
    ELSE /\ Len(C8_Normalized(f)) <= Len(key)
         /\ \A i \in 1..Len(C8_Normalized(f)) : key[i] = C8_Normalized(f)[i]

(* C8: GetFilteredKeys returns, without duplicates and in ascending byte   *)
(* order, exactly the keys that match the filter: every key for "" and     *)
(* "/", otherwise the keys with the normalized filter as a string prefix.  *)
C8_FilteredKeysExact ==
    op.name = "GetFilteredKeys"
    => /\ \A i \in 1..(Len(ret.value) - 1) : StrLess(ret.value[i], ret.value[i + 1])
       /\ {ret.value[i] : i \in 1..Len(ret.value)}
            = {key \in DOMAIN pre : C8_Matches(key, op.k1)}
       /\ (pre = EmptyMap => ret.value = <<>>)

C8_Witness ==
    /\ op.name = "GetFilteredKeys"
    /\ op.k1 = PathA
    /\ ret.value = <<PathA, PathAB, PathABC>>
    /\ PathB \in DOMAIN pre

(* C9: for a non-empty filter f other than "/" that does not end in "/",   *)
(* GetFilteredKeys(S, f + "/") equals GetFilteredKeys(S, f).               *)
C9_TrailingSlashEquivalence ==
    (/\ op.name = "GetFilteredKeys"
     /\ op.k1 # <<>>
     /\ op.k1 # <<SLASH>>
     /\ ~HasSuffix(op.k1, <<SLASH>>))
    => \A order \in Orders(DOMAIN pre) :
          GetFilteredKeys(pre, op.k1 \o <<SLASH>>, order) = ret.value

C9_Witness ==
    /\ op.name = "GetFilteredKeys"
    /\ op.k1 = PathAB
    /\ ret.value = <<PathAB>>
    /\ Cardinality(DOMAIN pre) = 4

----------------------------------------------------------------------------
(* SpecStore: one caller loading, changing and saving the store.  The      *)
(* values include the empty string, a value holding "=", a value with a    *)
(* leading space and a value holding a newline.                            *)

StoreKeys == {PathA, PathB}

ValEmpty == <<>>
ValEq == <<120, EQ, 121>>
ValSpace == <<SP, 120>>
ValLines == <<120, NL, SLASH, 98, EQ, 121>>
StoreVals == {ValEmpty, ValEq, ValSpace, ValLines}

(* a command changes its map a bounded number of times between load and save *)
MaxMutations == 1

Nonces == {0, 1}
Recipients == {BadKey, 1}
Identities == {BadKey, 1, 2}
WriteFails == {"none", "open", "lock", "write"}
ReadFails == {"none", "open", "lock", "read"}

(* what a write leaves when it fails: a strict prefix of the data; unused otherwise *)
Left(encryptedData, fail) == IF fail = "write" THEN Prefixes(encryptedData) ELSE {<<>>}

DoLoadSecrets(identity, fail) ==
    /\ op' = OpKey("LoadSecrets", identity, fail)
    /\ pre' = EmptyMap
    /\ LET result == LoadSecrets(file, identity, fail)
       IN /\ secrets' = result.secrets
          /\ err' = result.err
    /\ ret' = NoRet
    /\ UNCHANGED <<file, saved>>

(* the record of a save: kept while the file holds what that save wrote *)
savedAfter(wrote, recipient, result) ==
    IF result.err = "nil" THEN [valid |-> TRUE, secrets |-> wrote, rcpt |-> recipient]
    ELSE IF result.file = file THEN saved
    ELSE NotSaved

DoSaveSecrets(recipient, nonce, order, fail, left) ==
    /\ op' = OpKey("SaveSecrets", recipient, fail)
    /\ pre' = secrets
    /\ LET result == SaveSecrets(secrets, recipient, file, nonce, order, fail, left)
       IN /\ file' = result.file
          /\ err' = result.err
          /\ saved' = savedAfter(secrets, recipient, result)
    /\ ret' = NoRet
    /\ UNCHANGED secrets

DoCreateEmptySecretsFile(recipient, nonce, fail, left) ==
    /\ op' = OpKey("CreateEmptySecretsFile", recipient, fail)
    /\ pre' = EmptyMap
    /\ LET result == CreateEmptySecretsFile(recipient, file, nonce, fail, left)
       IN /\ file' = result.file
          /\ err' = result.err
          /\ saved' = IF result.file = file THEN saved ELSE NotSaved
    /\ ret' = NoRet
    /\ UNCHANGED secrets

StoreInit ==
    /\ MemInit
    /\ file = NoFile
    /\ saved = NotSaved
    /\ muts = 0
    /\ content = <<>>
    /\ crumbConfig = NoCrumbConfig
    /\ LockIdle

StoreNext ==
    \/ \E identity \in Identities, fail \in ReadFails :
          DoLoadSecrets(identity, fail) /\ muts' = 0 /\ UNCHANGED <<content, crumbConfig, lockVars>>
    \/ \E recipient \in Recipients, nonce \in Nonces, order \in Orders(DOMAIN secrets),
          fail \in WriteFails :
          \E left \in Left(EncryptData(serializeSecrets(secrets, order), recipient, nonce), fail) :
             DoSaveSecrets(recipient, nonce, order, fail, left)
             /\ UNCHANGED <<muts, content, crumbConfig, lockVars>>
    \/ \E recipient \in Recipients, nonce \in Nonces, fail \in WriteFails :
          \E left \in Left(EncryptData(<<>>, recipient, nonce), fail) :
             DoCreateEmptySecretsFile(recipient, nonce, fail, left)
             /\ UNCHANGED <<muts, content, crumbConfig, lockVars>>
    \/ \E key \in StoreKeys, value \in StoreVals :
          /\ muts < MaxMutations
          /\ muts' = muts + 1
          /\ DoSetSecret(key, value)
          /\ UNCHANGED <<file, saved, content, crumbConfig, lockVars>>
    \/ \E key \in StoreKeys :
          /\ muts < MaxMutations
          /\ muts' = muts + 1
          /\ DoDeleteSecret(key)
          /\ UNCHANGED <<file, saved, content, crumbConfig, lockVars>>

SpecStore == StoreInit /\ [][StoreNext]_vars

----------------------------------------------------------------------------
(* Claims about loading and saving (checked under SpecStore).              *)

(* C1: round trip.  A LoadSecrets that succeeds with the matching identity *)
(* on the file a SaveSecrets wrote returns exactly the map that was saved  *)
(* (valid paths, arbitrary values).                                        *)
C1_RoundTrip ==
    (/\ op.name = "LoadSecrets"
     /\ err = "nil"
     /\ saved.valid
     /\ saved.rcpt = op.id)
    => secrets = saved.secrets

(* C4: LoadSecrets leaves the file as it is and returns an empty map and   *)
(* no error when the file does not exist (whatever the key), and, given a  *)
(* private key that parses and a read that succeeds, when the file has     *)
(* zero bytes or holds an empty payload sealed for that key.               *)
C4_LoadEmptyCases ==
    [][op'.name = "LoadSecrets"
       => /\ file' = file
          /\ ~file.exists => (err' = "nil" /\ secrets' = EmptyMap)
          /\ (/\ file.exists
              /\ op'.id # BadKey
              /\ op'.fail = "none"
              /\ \/ file.data = <<>>
                 \/ /\ Len(file.data) = 1
                    /\ file.data[1].whole
                    /\ file.data[1].rcpt = op'.id
                    /\ file.data[1].plain = <<>>)
             => (err' = "nil" /\ secrets' = EmptyMap)]_vars

C4_Witness ==
    /\ op.name = "LoadSecrets"
    /\ op.fail = "none"
    /\ file.exists
    /\ file.data = <<>>
    /\ err = "nil"
    /\ secrets = EmptyMap

(* C11: idempotence of the plaintext.  A SaveSecrets that succeeds with no *)
(* mutation since the last LoadSecrets writes a payload that is the same   *)
(* for every map iteration order, and loading that file and saving again   *)
(* writes the same payload once more.                                      *)
C11_Payload(f) == f.data[1].plain

C11_PlaintextIdempotent ==
    [][(op'.name = "SaveSecrets" /\ err' = "nil" /\ muts = 0)
       => LET again == LoadSecrets(file', op'.id, "none")
          IN /\ \A order \in Orders(DOMAIN secrets) :
                   serializeSecrets(secrets, order) = C11_Payload(file')
             /\ again.err = "nil"
             /\ \A order \in Orders(DOMAIN again.secrets), nonce \in Nonces :
                   C11_Payload(SaveSecrets(again.secrets, op'.id, file', nonce,
                                           order, "none", <<>>).file)
                   = C11_Payload(file')]_vars

(* a successful save of a loaded two-entry map, unchanged since the load *)
C11_Witness ==
    /\ op.name = "SaveSecrets"
    /\ err = "nil"
    /\ muts = 0
    /\ Cardinality(DOMAIN secrets) = 2
    /\ file.exists
    /\ Len(file.data) = 1
    /\ parseSecrets(C11_Payload(file)) = secrets

----------------------------------------------------------------------------
(* SpecParse: ParseSecrets applied to an arbitrary payload (well-formed or *)
(* not) over "a", "=", space and newline.                                  *)

MaxPayloadLen == 6

PayloadBytes == {97, EQ, SP, NL}

Payloads == UNION {[1..n -> PayloadBytes] : n \in 0..MaxPayloadLen}

DoParseSecrets ==
    /\ op' = Op("ParseSecrets", <<>>, <<>>, <<>>, FALSE)
    /\ pre' = EmptyMap
    /\ secrets' = parseSecrets(content)
    /\ err' = "nil"
    /\ ret' = NoRet
    /\ UNCHANGED <<content, crumbConfig>>

ParseInit ==
    /\ MemInit
    /\ file = NoFile
    /\ saved = NotSaved
    /\ muts = 0
    /\ content \in Payloads
    /\ crumbConfig = NoCrumbConfig
    /\ LockIdle

ParseNext == DoParseSecrets /\ UNCHANGED <<storeVars, lockVars>>

SpecParse == ParseInit /\ [][ParseNext]_vars

(* The claim's reading of a payload: its lines, and of a line: its record. *)
C10_Lines == Split(content, NL)

C10_Accepted == {i \in 1..Len(C10_Lines) : \E j \in 1..Len(C10_Lines[i]) : C10_Lines[i][j] = EQ}

C10_FirstEq(line) == CHOOSE j \in 1..Len(line) : line[j] = EQ /\ \A k \in 1..(j - 1) : line[k] # EQ

C10_Path(line) == TrimSpace(SubSeq(line, 1, C10_FirstEq(line) - 1))

C10_Value(line) == TrimSpace(SubSeq(line, C10_FirstEq(line) + 1, Len(line)))

C10_AcceptedLines == SelectSeq(C10_Lines, LAMBDA line : \E j \in 1..Len(line) : line[j] = EQ)

(* C10: ParseSecrets never fails; blank lines and lines without "=" leave  *)
(* no record; every other line stores the trimmed text before its first    *)
(* "=" under the trimmed text after it (a later line for the same path     *)
(* replaces an earlier one); the payload without the dropped lines parses  *)
(* to the same map.                                                        *)
C10_LenientParse ==
    op.name = "ParseSecrets"
    => /\ err = "nil"
       /\ DOMAIN secrets = {C10_Path(C10_Lines[i]) : i \in C10_Accepted}
       /\ \A i \in C10_Accepted :
             (\A j \in C10_Accepted : j > i => C10_Path(C10_Lines[j]) # C10_Path(C10_Lines[i]))
             => secrets[C10_Path(C10_Lines[i])] = C10_Value(C10_Lines[i])
       /\ parseSecrets(Join(C10_AcceptedLines, NL)) = secrets

C10_Witness ==
    /\ op.name = "ParseSecrets"
    /\ content = <<97, EQ, EQ, NL, 97>>
    /\ secrets = (<<97>> :> <<EQ>>)

----------------------------------------------------------------------------
(* SpecLock: several process invocations, each making one                  *)
(* ReadFileWithLock (for LoadSecrets) or WriteFileWithLock (for            *)
(* SaveSecrets) on the same storage file, their system calls interleaved.  *)
(* The file starts with a non-empty store and every writer saves a         *)
(* non-empty store.                                                        *)

NumProcs == 3
Procs == 1..NumProcs

StoreKey == 1

InitialStore == EncryptData(serializeSecrets(PathB :> ValY, <<PathB>>), StoreKey, 0)

(* what process p's SaveSecrets hands to WriteFileWithLock *)
WriteData(p) == EncryptData(serializeSecrets(PathA :> ValX, <<PathA>>), StoreKey, p)

LockInit ==
    /\ MemInit
    /\ saved = NotSaved
    /\ muts = 0
    /\ content = <<>>
    /\ crumbConfig = NoCrumbConfig
    /\ file = [exists |-> TRUE, data |-> InitialStore]
    /\ kind \in [Procs -> {"read", "write"}]
    /\ pc = [p \in Procs |-> "call"]
    /\ handle = [p \in Procs |-> "Closed"]
    /\ held = [p \in Procs |-> "none"]
    /\ buf = [p \in Procs |-> IF kind[p] = "write" THEN WriteData(p) ELSE <<>>]
    /\ perr = [p \in Procs |-> "nil"]

(* what the file-handle steps leave alone *)
lockRest == <<memVars, saved, muts, content, crumbConfig, kind>>

(* os.OpenFile: O_CREATE|O_WRONLY|O_TRUNC empties the file as it opens it  *)
Open(p) ==
    /\ pc[p] = "call"
    /\ kind[p] = "write" \/ file.exists
    /\ file' = IF kind[p] = "write" THEN [exists |-> TRUE, data |-> <<>>] ELSE file
    /\ handle' = [handle EXCEPT ![p] = "Opened"]
    /\ pc' = [pc EXCEPT ![p] = "flock"]
    /\ UNCHANGED <<held, buf, perr>>
    /\ UNCHANGED lockRest

OpenFail(p) ==
    /\ pc[p] = "call"
    /\ perr' = [perr EXCEPT ![p] = "failed to open file"]
    /\ pc' = [pc EXCEPT ![p] = "returned"]
    /\ UNCHANGED <<file, handle, held, buf>>
    /\ UNCHANGED lockRest

(* unix.Flock(LOCK_EX / LOCK_SH) blocks until the lock can be granted *)
Flock(p) ==
    /\ pc[p] = "flock"
    /\ canLock(IF kind[p] = "write" THEN "ex" ELSE "sh", [q \in Procs \ {p} |-> held[q]])
    /\ held' = [held EXCEPT ![p] = IF kind[p] = "write" THEN "ex" ELSE "sh"]
    /\ handle' = [handle EXCEPT ![p] = "Locked"]
    /\ pc' = [pc EXCEPT ![p] = "io"]
    /\ UNCHANGED <<file, buf, perr>>
    /\ UNCHANGED lockRest

FlockFail(p) ==
    /\ pc[p] = "flock"
    /\ perr' = [perr EXCEPT ![p] = "failed to lock file"]
    /\ pc' = [pc EXCEPT ![p] = "return"]
    /\ UNCHANGED <<file, handle, held, buf>>
    /\ UNCHANGED lockRest

(* file.Write(data) *)
Write(p) ==
    /\ pc[p] = "io" /\ kind[p] = "write"
    /\ file' = [file EXCEPT !.data = buf[p]]
    /\ pc' = [pc EXCEPT ![p] = "return"]
    /\ UNCHANGED <<handle, held, buf, perr>>
    /\ UNCHANGED lockRest

WriteFail(p) ==
    /\ pc[p] = "io" /\ kind[p] = "write"
    /\ \E left \in Prefixes(buf[p]) : file' = [file EXCEPT !.data = left]
    /\ perr' = [perr EXCEPT ![p] = "failed to write data"]
    /\ pc' = [pc EXCEPT ![p] = "return"]
    /\ UNCHANGED <<handle, held, buf>>
    /\ UNCHANGED lockRest

(* io.ReadAll reads until end of file: a zero-length file ends it at once, *)
(* otherwise the first reads return the leading bytes                      *)
Read(p) ==
    /\ pc[p] = "io" /\ kind[p] = "read"
    /\ buf' = [buf EXCEPT ![p] = IF file.data = <<>> THEN <<>>
                                 ELSE <<[file.data[1] EXCEPT !.whole = FALSE]>>]
    /\ pc' = [pc EXCEPT ![p] = IF file.data = <<>> THEN "return" ELSE "io2"]
    /\ UNCHANGED <<file, handle, held, perr>>
    /\ UNCHANGED lockRest

(* the remaining reads: the rest of the file, or nothing more when the     *)
(* file was emptied since                                                  *)
ReadRest(p) ==
    /\ pc[p] = "io2"
    /\ buf' = [buf EXCEPT ![p] = IF file.data = <<>> THEN buf[p] ELSE file.data]
    /\ pc' = [pc EXCEPT ![p] = "return"]
    /\ UNCHANGED <<file, handle, held, perr>>
    /\ UNCHANGED lockRest

ReadFail(p) ==
    /\ pc[p] \in {"io", "io2"} /\ kind[p] = "read"
    /\ buf' = [buf EXCEPT ![p] = <<>>]
    /\ perr' = [perr EXCEPT ![p] = "failed to read file"]
    /\ pc' = [pc EXCEPT ![p] = "return"]
    /\ UNCHANGED <<file, handle, held>>
    /\ UNCHANGED lockRest

(* a return whose deferred calls leave the lock with the process *)
DeferredKeepsLock(p) ==
    /\ pc[p] = "return"
    /\ handle' = [handle EXCEPT ![p] = deferredStep(handle[p])]
    /\ pc' = [pc EXCEPT ![p] = IF deferredStep(handle[p]) = "Closed" THEN "returned"
                                 ELSE "return"]
    /\ UNCHANGED <<file, held, buf, perr>>
    /\ UNCHANGED lockRest

(* the function returns: one deferred call per step; closing the handle    *)
(* drops any lock still held on it                                         *)
Deferred(p) ==
    /\ pc[p] = "return"
    /\ handle' = [handle EXCEPT ![p] = deferredStep(handle[p])]
    /\ held' = [held EXCEPT ![p] = "none"]
    /\ pc' = [pc EXCEPT ![p] = IF deferredStep(handle[p]) = "Closed" THEN "returned"
                                 ELSE "return"]
    /\ UNCHANGED <<file, buf, perr>>
    /\ UNCHANGED lockRest

LockNext ==
    \E p \in Procs :
       \/ Open(p)
       \/ OpenFail(p)
       \/ Flock(p)
       \/ FlockFail(p)
       \/ Write(p)
       \/ WriteFail(p)
       \/ Read(p)
       \/ ReadRest(p)
       \/ ReadFail(p)
       \/ Deferred(p)

SpecLock == LockInit /\ [][LockNext]_vars

----------------------------------------------------------------------------
(* Claims about the file handles and the locks (checked under SpecLock).   *)

(* what LoadSecrets makes of the bytes process p read *)
Loaded(p) == decodeSecrets(buf[p], StoreKey)

(* C2: while no write fails, a LoadSecrets that succeeds concurrently with *)
(* SaveSecrets calls never reads a zero-length or partly written file and  *)
(* never returns an empty map (the store is non-empty before and after     *)
(* every save).                                                            *)
C2_ReaderNeverSeesTruncation ==
    \A p \in Procs :
       (/\ kind[p] = "read"
        /\ pc[p] = "returned"
        /\ perr[p] = "nil"
        /\ \A q \in Procs : kind[q] = "write" => perr[q] = "nil")
       => /\ Len(buf[p]) = 1
          /\ buf[p][1].whole
          /\ Loaded(p).err = "nil"
          /\ Loaded(p).secrets # EmptyMap

HandleEdges ==
    {<<"Closed", "Opened">>, <<"Opened", "Locked">>, <<"Locked", "Unlocked">>,
     <<"Unlocked", "Closed">>}

(* C3: a handle moves only Closed -> Opened -> Locked -> Unlocked ->       *)
(* Closed, or Opened -> Closed when the lock was never acquired; it is     *)
(* Locked exactly while its process holds the lock; and a call that has    *)
(* returned has left its handle closed and holds no lock.                  *)
C3_HandleLifecycle ==
    /\ [][\A p \in Procs :
            /\ handle'[p] # handle[p]
               => \/ <<handle[p], handle'[p]>> \in HandleEdges
                  \/ /\ <<handle[p], handle'[p]>> = <<"Opened", "Closed">>
                     /\ perr[p] = "failed to lock file"
            /\ (handle'[p] = "Locked") <=> (held'[p] # "none")]_vars
    /\ [](\A p \in Procs :
            pc[p] = "returned" => (handle[p] = "Closed" /\ held[p] = "none"))

C3_Witness ==
    \E p \in Procs, q \in Procs :
       /\ kind[p] = "write" /\ pc[p] = "returned" /\ perr[p] = "failed to write data"
       /\ handle[p] = "Closed" /\ held[p] = "none"
       /\ kind[q] = "read" /\ pc[q] = "returned" /\ perr[q] = "failed to read file"
       /\ handle[q] = "Closed"

----------------------------------------------------------------------------
(* SpecExport: `crumb export` and `crumb get --export` run against a store *)
(* file that SaveSecrets wrote and a .crumb.yaml.  The commands change     *)
(* neither; each run records what it resolved and printed.                 *)

ExpAB == <<SLASH, 97, 98>>                       \* "/ab"
ExpABC == <<SLASH, 97, SLASH, 98, DASH, 99>>     \* "/a/b-c"
ExportPaths == {PathA, ExpAB, ExpABC}

(* every secret has its own value: "x", "y", "z" *)
FullStore == (PathA :> <<120>>) @@ (ExpAB :> <<121>>) @@ (ExpABC :> <<122>>)

ExportStores == {[k \in S |-> FullStore[k]] : S \in SUBSET ExportPaths}

(* path_sync.path: none, "/", "/a", "/a/", "/a//", "/ab" *)
ConfigPaths ==
    {<<>>, <<SLASH>>, PathA, PathA \o <<SLASH>>, PathA \o <<SLASH, SLASH>>, ExpAB}

(* env entries: the name "a-b" with a path that may be stored ("/a"), a    *)
(* path that never is ("/c"), or the word "lit"                            *)
EnvNames == {<<97, DASH, 98>>}
EnvLiteral == <<108, 105, 116>>
EnvSpecs == {PathA, <<SLASH, 99>>, EnvLiteral}
EnvTables ==
    UNION {[D -> {[Path |-> spec] : spec \in EnvSpecs}] : D \in SUBSET EnvNames}

(* remap entries from "b" and "c" to "B" and "c" *)
RemapFrom == {<<98>>, <<99>>}
RemapTo == {<<66>>, <<99>>}
RemapTables == UNION {[D -> RemapTo] : D \in SUBSET RemapFrom}

CrumbConfigs ==
    {[PathSync |-> [Path |-> path, Remap |-> remap], Env |-> env] :
        path \in ConfigPaths, remap \in RemapTables, env \in EnvTables}

PathFlags == {<<SLASH>>, PathA}
Shells == {"bash", "fish", "zsh"}

(* the map iteration orders a run can meet; one stands for all when the    *)
(* run fails before its loops                                              *)
RunOrders(keys, fail) == IF fail = "none" THEN Orders(keys) ELSE {<<>>}

GetKeys == ExportPaths \cup {<<SLASH, 99>>, <<97>>}

DoExportCommand(pathFlag, shell, fail, pathOrder, envOrder, remapOrder, keyOrder) ==
    /\ op' = [NoOp EXCEPT !.name = "ExportCommand", !.k1 = pathFlag, !.fail = fail]
    /\ pre' = EmptyMap
    /\ LET result == ExportCommand(file, StoreKey, crumbConfig, pathFlag, shell, fail,
                                   pathOrder, envOrder, remapOrder, keyOrder)
       IN /\ secrets' = result.secrets
          /\ err' = result.err
          /\ ret' = result.out
    /\ UNCHANGED <<storeVars, content, crumbConfig, lockVars>>

DoGetCommand(keyPath, showValue, exportFormat, shell, fail) ==
    /\ op' = [NoOp EXCEPT !.name = "GetCommand", !.k1 = keyPath, !.yes = exportFormat,
                          !.fail = fail]
    /\ pre' = EmptyMap
    /\ LET result == GetCommand(file, StoreKey, keyPath, showValue, exportFormat, shell, fail)
       IN /\ secrets' = result.secrets
          /\ err' = result.err
          /\ ret' = result.out
    /\ UNCHANGED <<storeVars, content, crumbConfig, lockVars>>

(* the store file SaveSecrets writes for a map *)
StoreFile(s) ==
    [exists |-> TRUE,
     data |-> EncryptData(serializeSecrets(s, CHOOSE order \in Orders(DOMAIN s) : TRUE),
                          StoreKey, 0)]

ExportInit ==
    /\ MemInit
    /\ file \in {StoreFile(s) : s \in ExportStores}
    /\ saved = NotSaved
    /\ muts = 0
    /\ content = <<>>
    /\ crumbConfig \in CrumbConfigs
    /\ LockIdle

(* the map the store file holds *)
Stored == LoadSecrets(file, StoreKey, "none").secrets

(* a run of the command line is one process: it runs one command and exits *)
Running == op = NoOp

ExportNext ==
    \/ \E pathFlag \in PathFlags, shell \in Shells, fail \in {"none", "config", "read"} :
          /\ Running
          /\ \E pathOrder \in
                RunOrders(DOMAIN exportPathSecrets(Stored, pathFlag, crumbConfig), fail) :
             \E keyOrder \in
                   RunOrders(DOMAIN exportResolve(Stored, pathFlag, crumbConfig, pathOrder,
                                                  <<>>, <<>>).envVars, fail) :
                DoExportCommand(pathFlag, shell, fail, pathOrder, <<>>, <<>>, keyOrder)
    \/ \E shell \in Shells, fail \in {"none", "config", "read", "crumb"} :
          /\ Running
          /\ \E pathOrder \in RunOrders(DOMAIN exportPathSecrets(Stored, <<>>, crumbConfig), fail),
             envOrder \in RunOrders(DOMAIN crumbConfig.Env, fail),
             remapOrder \in RunOrders(DOMAIN crumbConfig.PathSync.Remap, fail) :
             \E keyOrder \in
                   RunOrders(DOMAIN exportResolve(Stored, <<>>, crumbConfig, pathOrder,
                                                  envOrder, remapOrder).envVars, fail) :
                DoExportCommand(<<>>, shell, fail, pathOrder, envOrder, remapOrder, keyOrder)
    \/ \E keyPath \in GetKeys, showValue \in BOOLEAN, exportFormat \in BOOLEAN,
          shell \in Shells, fail \in {"none", "config", "read"} :
          Running /\ DoGetCommand(keyPath, showValue, exportFormat, shell, fail)

SpecExport == ExportInit /\ [][ExportNext]_vars

----------------------------------------------------------------------------
(* Claims about the export (checked under SpecExport).                     *)

(* an export that got as far as resolving its variables *)
Resolved == op.name = "ExportCommand" /\ op.fail = "none"
ConfigMode == Resolved /\ op.k1 = <<>>
PathMode == Resolved /\ op.k1 # <<>>

(* a name with "/" and "-" (or "-" alone) turned into "_", in upper case *)
UpperByte(c) == IF c \in 97..122 THEN c - 32 ELSE c
NameOf(s, toUnderscore) ==
    [i \in DOMAIN s |-> IF s[i] \in toUnderscore THEN UNDERSCORE ELSE UpperByte(s[i])]

(* what follows the prefix in a path that has it, less one leading "/" *)
SuffixOf(path, prefix) ==
    LET suffix == SubSeq(path, Len(prefix) + 1, Len(path))
    IN IF suffix # <<>> /\ Head(suffix) = SLASH THEN Tail(suffix) ELSE suffix

(* C12: config-based path-prefix expansion.  With path_sync.path set, the  *)
(* variables after the path section are exactly the names of the secrets   *)
(* whose path has the prefix (the path less one trailing "/"): the suffix  *)
(* less one leading "/", with "/" and "-" as "_", in upper case, each      *)
(* bound to the value of such a secret; an empty name is skipped and a     *)
(* secret without the prefix contributes nothing.                          *)
C12_Prefix == TrimSuffix(crumbConfig.PathSync.Path, <<SLASH>>)
C12_Name(path) == NameOf(SuffixOf(path, C12_Prefix), {SLASH, DASH})
C12_Contributing ==
    {path \in DOMAIN secrets : HasPrefix(path, C12_Prefix) /\ C12_Name(path) # <<>>}

C12_PrefixExpansion ==
    (ConfigMode /\ crumbConfig.PathSync.Path # <<>>)
    => /\ DOMAIN ret.afterPath = {C12_Name(path) : path \in C12_Contributing}
       /\ \A name \in DOMAIN ret.afterPath :
             \E path \in C12_Contributing :
                C12_Name(path) = name /\ ret.afterPath[name] = secrets[path]

(* C13: literal versus path env entries.  After the env section every env  *)
(* entry (name, spec) has bound the name ("-" as "_", upper case) to spec  *)
(* itself when spec does not start with "/", and to the stored value of    *)
(* the path spec when that path is stored; an entry whose path is not      *)
(* stored leaves the variables of the path section as they were.           *)
C13_Name(name) == NameOf(name, {DASH})

C13_EnvEntries ==
    ConfigMode
    => \A name \in DOMAIN crumbConfig.Env :
          LET spec == crumbConfig.Env[name].Path
              var == C13_Name(name)
          IN IF spec = <<>> \/ Head(spec) # SLASH
             THEN var \in DOMAIN ret.afterEnv /\ ret.afterEnv[var] = spec
             ELSE IF spec \in DOMAIN secrets
             THEN var \in DOMAIN ret.afterEnv /\ ret.afterEnv[var] = secrets[spec]
             ELSE /\ var \in DOMAIN ret.afterEnv <=> var \in DOMAIN ret.afterPath
                  /\ var \in DOMAIN ret.afterEnv => ret.afterEnv[var] = ret.afterPath[var]

(* C14: the remap renames without losing the value.  For a remap table of  *)
(* one pair (fromKey, toKey): when the sanitized fromKey is among the      *)
(* resolved variables with value x, afterwards the sanitized toKey has     *)
(* value x, the sanitized fromKey is gone if the two names differ, and     *)
(* every other variable is as before; when the sanitized fromKey is not    *)
(* among them, the variables are unchanged.                                *)
C14_RemapKeepsValue ==
    (ConfigMode /\ Cardinality(DOMAIN crumbConfig.PathSync.Remap) = 1)
    => \A fromKey \in DOMAIN crumbConfig.PathSync.Remap :
          LET from == NameOf(fromKey, {DASH})
              to == NameOf(crumbConfig.PathSync.Remap[fromKey], {DASH})
          IN IF from \in DOMAIN ret.afterEnv
             THEN /\ to \in DOMAIN ret.envVars
                  /\ ret.envVars[to] = ret.afterEnv[from]
                  /\ from # to => from \notin DOMAIN ret.envVars
                  /\ \A other \in (DOMAIN ret.afterEnv \cup DOMAIN ret.envVars) \ {from, to} :
                        /\ other \in DOMAIN ret.afterEnv
                        /\ other \in DOMAIN ret.envVars
                        /\ ret.envVars[other] = ret.afterEnv[other]
             ELSE ret.envVars = ret.afterEnv

(* C15: the remap is deterministic.  The variables after the remap are the *)
(* same whatever order the remap table is visited in.                      *)
C15_RemapDeterministic ==
    ConfigMode
    => \A order \in Orders(DOMAIN crumbConfig.PathSync.Remap) :
          remapLoop(crumbConfig.PathSync.Remap, ret.afterEnv, order, Len(order))
          = ret.envVars

(* C17: in config mode, with no secret under path_sync.path and no env     *)
(* entries, ExportCommand returns no error.                                *)
C17_EmptyExportNoError ==
    (/\ ConfigMode
     /\ crumbConfig.Env = EmptyMap
     /\ \A path \in DOMAIN secrets :
           ~HasPrefix(path, TrimSuffix(crumbConfig.PathSync.Path, <<SLASH>>)))
    => err = "nil"

(* C16: the export hands its variables over in ascending order of their    *)
(* names, each name once, and returns the no-secrets error exactly when    *)
(* the resolved map is empty, in which case it prints no assignment.  For  *)
(* bash and fish the i-th line printed assigns the i-th name its value.    *)
C16_Assigns(line, key, value) ==
    \/ line = ExportWord \o key \o <<EQ>> \o value \o <<NL>>
    \/ line = SetXWord \o key \o <<SP>> \o value \o <<NL>>

C18_LastSlash(path) ==
    IF Contains(path, SLASH)
    THEN CHOOSE i \in DOMAIN path :
            path[i] = SLASH /\ \A j \in (i + 1)..Len(path) : path[j] # SLASH
    ELSE 0

C18_FinalName(path) ==
    NameOf(SubSeq(path, C18_LastSlash(path) + 1, Len(path)), {DASH})

C18_UnderPath == {path \in DOMAIN secrets : HasPrefix(path, TrimSuffix(op.k1, <<SLASH>>))}

C18_FinalSegmentRule ==
    /\ (op.name = "GetCommand" /\ op.yes /\ err = "nil" /\ ret.printed # <<>>)
       => ret.varName = C18_FinalName(op.k1)
    /\ PathMode
       => \A name \in DOMAIN ret.envVars :
             \E path \in C18_UnderPath :
                C18_FinalName(path) = name /\ ret.envVars[name] = secrets[path]

----------------------------------------------------------------------------
(* SpecCmd: the commands that write the store (setup, set, delete, move,   *)
(* import), run one after another against one storage file by a user who   *)
(* answers their prompts.  The writes succeed here (SpecStore and SpecLock *)
(* cover the failing ones).  SaveSecrets writes the same payload whatever  *)
(* the iteration order of the map, so one order stands for all.            *)

CmdKeys == {PathA, PathAB}
CmdVals == {ValX, ValY}

(* the byte answered to ConfirmOverwrite: "y", "Y" or "n" *)
Responses == {<<121>>, <<89>>, <<110>>}

(* the line typed to confirm a deletion: "/a", "/a/b", " /a", or nothing *)
TypedLines == {PathA \o <<NL>>, PathAB \o <<NL>>, <<SP>> \o PathA \o <<NL>>, <<NL>>}

(* the line typed at "Continue with import?": "y", "YES" or "n" *)
ImportResponses == {<<121, NL>>, <<89, 69, 83, NL>>, <<110, NL>>}

(* --path of the import: "/a", "/a/", none *)
BasePaths == {PathA, PathA \o <<SLASH>>, <<>>}

(* the .env file: empty, `b=x`, or the two lines `b="y"` and `export c=x` *)
ExportC == <<101, 120, 112, 111, 114, 116, SP, 99>>
EnvContents ==
    {<<>>, <<98, EQ>> \o ValX, <<98, EQ, 34>> \o ValY \o <<34, NL>> \o ExportC \o <<EQ>> \o ValX}

(* what ParseEnvFile returns for it *)
EnvFiles == {parseEnvContent(envContent) : envContent \in EnvContents}

(* how the load of a command goes: it succeeds, the read fails, or the     *)
(* private key is the key of somebody else                                *)
CmdFails == {"none", "read", "identity"}
OtherKey == 2
CmdIdentity(fail) == IF fail = "identity" THEN OtherKey ELSE StoreKey

AnOrder(m) == CHOOSE order \in Orders(DOMAIN m) : TRUE

(* what a command leaves: the file, the error, and what it did *)
CmdDone(name, result) ==
    /\ file' = result.file
    /\ err' = result.err
    /\ ret' = [saves |-> result.saves, declined |-> result.declined]
    /\ secrets' = EmptyMap
    /\ UNCHANGED <<saved, muts, content, crumbConfig, lockVars>>

DoSetupCommand(publicKey, fail, nonce) ==
    /\ op' = [NoOp EXCEPT !.name = "SetupCommand", !.id = publicKey, !.fail = fail]
    /\ pre' = EmptyMap
    /\ CmdDone("SetupCommand", SetupCommand(file, publicKey, fail, nonce))

DoSetCommand(keyPath, value, response, fail, nonce) ==
    /\ op' = [NoOp EXCEPT !.name = "SetCommand", !.k1 = keyPath, !.v = value,
                          !.k2 = response, !.fail = fail]
    /\ pre' = EmptyMap
    /\ CmdDone("SetCommand",
               SetCommand(file, CmdIdentity(fail), StoreKey, keyPath, value, response, fail, nonce,
                          AnOrder(SetSecret(Stored, keyPath, value))))

DoDeleteCommand(keyPath, typed, fail, nonce) ==
    /\ op' = [NoOp EXCEPT !.name = "DeleteCommand", !.k1 = keyPath, !.k2 = typed,
                          !.fail = fail]
    /\ pre' = EmptyMap
    /\ CmdDone("DeleteCommand",
               DeleteCommand(file, CmdIdentity(fail), StoreKey, keyPath, typed, fail, nonce,
                             AnOrder(DeleteSecret(Stored, keyPath).secrets)))

DoMoveCommand(oldKeyPath, newKeyPath, response, fail, nonce) ==
    /\ op' = [NoOp EXCEPT !.name = "MoveCommand", !.k1 = oldKeyPath, !.k2 = newKeyPath,
                          !.v = response, !.fail = fail]
    /\ pre' = EmptyMap
    /\ CmdDone("MoveCommand",
               MoveCommand(file, CmdIdentity(fail), StoreKey, oldKeyPath, newKeyPath, response, fail,
                           nonce, AnOrder(MoveSecret(Stored, oldKeyPath, newKeyPath, TRUE).secrets)))

DoImportCommand(basePath, envVars, response, fail, nonce) ==
    /\ op' = [NoOp EXCEPT !.name = "ImportCommand", !.k1 = basePath, !.k2 = response,
                          !.fail = fail]
    /\ pre' = envVars
    /\ CmdDone("ImportCommand",
               ImportCommand(file, CmdIdentity(fail), StoreKey, basePath, envVars, response, fail,
                             nonce, AnOrder(importSecrets(Stored, basePath, envVars))))

CmdInit ==
    /\ MemInit
    /\ file = NoFile
    /\ saved = NotSaved
    /\ muts = 0
    /\ content = <<>>
    /\ crumbConfig = NoCrumbConfig
    /\ LockIdle

CmdNext ==
    \/ \E publicKey \in {BadKey, StoreKey}, nonce \in Nonces,
          fail \in {"none", "mkdir", "prompt", "saveconfig"} :
          DoSetupCommand(publicKey, fail, nonce)
    \/ \E keyPath \in CmdKeys, value \in CmdVals, response \in Responses,
          fail \in CmdFails, nonce \in Nonces :
          DoSetCommand(keyPath, value, response, fail, nonce)
    \/ \E keyPath \in CmdKeys, typed \in TypedLines, fail \in CmdFails, nonce \in Nonces :
          DoDeleteCommand(keyPath, typed, fail, nonce)
    \/ \E oldKeyPath \in CmdKeys, newKeyPath \in CmdKeys, response \in Responses,
          fail \in CmdFails, nonce \in Nonces :
          DoMoveCommand(oldKeyPath, newKeyPath, response, fail, nonce)
    \/ \E basePath \in BasePaths, envVars \in EnvFiles, response \in ImportResponses,
          fail \in CmdFails \cup {"envfile"}, nonce \in Nonces :
          DoImportCommand(basePath, envVars, response, fail, nonce)

SpecCmd == CmdInit /\ [][CmdNext]_vars

----------------------------------------------------------------------------
(* Claims about the commands (checked under SpecCmd).                      *)

(* C19: SetupCommand does not replace a storage file that holds secrets by *)
(* an empty store unless the user confirmed the overwrite.  The command    *)
(* has no prompt about the storage file, so no run of it is confirmed: it  *)
(* must leave such a file holding its secrets.                             *)
C19_SetupKeepsSecrets ==
    [][(op'.name = "SetupCommand" /\ file.exists /\ Stored # EmptyMap)
       => LoadSecrets(file', StoreKey, "none").secrets = Stored]_vars

(* C20: a declined confirmation is a no-op.  When the store was loaded and *)
(* the user declines (set: the key exists and the answer is not y or Y;    *)
(* delete: the key exists and the line typed is not the key path; move:    *)
(* both keys exist and the answer is not y or Y; import: an imported key   *)
(* exists and the line typed is not y or yes), the command makes no        *)
(* SaveSecrets call and the storage file is left as it was.                *)
C20_Yes(response) == response \in {<<121>>, <<89>>}
C20_SaysYes(line) == TrimSpace(ToLower(line)) \in {<<121>>, <<121, 101, 115>>}

C20_Declined ==
    /\ op'.fail = "none"
    /\ \/ /\ op'.name = "SetCommand"
          /\ op'.k1 \in DOMAIN Stored
          /\ ~C20_Yes(op'.k2)
       \/ /\ op'.name = "DeleteCommand"
          /\ op'.k1 \in DOMAIN Stored
          /\ TrimSpace(op'.k2) # op'.k1
       \/ /\ op'.name = "MoveCommand"
          /\ op'.k1 \in DOMAIN Stored
          /\ op'.k2 \in DOMAIN Stored
          /\ ~C20_Yes(op'.v)
       \/ /\ op'.name = "ImportCommand"
          /\ op'.k1 # <<>>
          /\ \E envKey \in DOMAIN pre' :
                TrimSuffix(op'.k1, <<SLASH>>) \o <<SLASH>> \o envKey \in DOMAIN Stored
          /\ ~C20_SaysYes(op'.k2)

C20_DeclinedIsNoOp ==
    [][C20_Declined => (ret'.saves = 0 /\ file' = file)]_vars

(* an import into a store of two secrets, one of them in the .env file,    *)
(* stopped at the prompt                                                   *)
C20_Witness ==
    /\ op.name = "ImportCommand"
    /\ ret.declined
    /\ ret.saves = 0
    /\ err = "nil"
    /\ PathAB \in DOMAIN Stored
    /\ Cardinality(DOMAIN Stored) = 2

----------------------------------------------------------------------------
(* SpecMerge: the export commands against stores and configurations in    *)
(* which several sources derive the same variable name.                   *)

MergeDash == <<SLASH, 97, DASH, 98>>             \* "/a-b"
Root == <<SLASH>>                                \* "/"
MergePaths == {PathAB, MergeDash, PathB, Root}

(* "/a/b" = "x", "/a-b" = "y", "/b" = "z", "/" = "w" *)
MergeFull == (PathAB :> <<120>>) @@ (MergeDash :> <<121>>) @@ (PathB :> <<122>>) @@ (Root :> <<119>>)

MergeStores == {[k \in S |-> MergeFull[k]] : S \in SUBSET MergePaths}

(* path_sync.path: none or "/" *)
MergeConfigPaths == {<<>>, Root}

(* env entries named "a-b" and "a_b", each for "/b" or "/a/b" *)
MergeEnvNames == {<<97, DASH, 98>>, <<97, UNDERSCORE, 98>>}
MergeEnvSpecs == {PathB, PathAB}
MergeEnvTables ==
    UNION {[D -> {[Path |-> spec] : spec \in MergeEnvSpecs}] : D \in SUBSET MergeEnvNames}

(* remap of "a-b" to "c" or to "c/d" *)
MergeRemapFrom == {<<97, DASH, 98>>}
MergeRemapTo == {<<99>>, <<99, SLASH, 100>>}
MergeRemapTables == UNION {[D -> MergeRemapTo] : D \in SUBSET MergeRemapFrom}

MergeConfigs ==
    {[PathSync |-> [Path |-> path, Remap |-> remap], Env |-> env] :
        path \in MergeConfigPaths, remap \in MergeRemapTables, env \in MergeEnvTables}

MergeShells == {"bash", "fish"}

MergeInit ==
    /\ MemInit
    /\ file \in {StoreFile(s) : s \in MergeStores}
    /\ saved = NotSaved
    /\ muts = 0
    /\ content = <<>>
    /\ crumbConfig \in MergeConfigs
    /\ LockIdle

MergeNext ==
    \/ \E shell \in MergeShells, fail \in {"none", "read"} :
          /\ Running
          /\ \E pathOrder \in
                RunOrders(DOMAIN exportPathSecrets(Stored, Root, crumbConfig), fail) :
             \E keyOrder \in
                   RunOrders(DOMAIN exportResolve(Stored, Root, crumbConfig, pathOrder,
                                                  <<>>, <<>>).envVars, fail) :
                DoExportCommand(Root, shell, fail, pathOrder, <<>>, <<>>, keyOrder)
    \/ \E shell \in MergeShells, fail \in {"none", "read"} :
          /\ Running
          /\ \E pathOrder \in RunOrders(DOMAIN exportPathSecrets(Stored, <<>>, crumbConfig), fail),
             envOrder \in RunOrders(DOMAIN crumbConfig.Env, fail),
             remapOrder \in RunOrders(DOMAIN crumbConfig.PathSync.Remap, fail) :
             \E keyOrder \in
                   RunOrders(DOMAIN exportResolve(Stored, <<>>, crumbConfig, pathOrder,
                                                  envOrder, remapOrder).envVars, fail) :
                DoExportCommand(<<>>, shell, fail, pathOrder, envOrder, remapOrder, keyOrder)
    \/ \E keyPath \in MergePaths, exportFormat \in BOOLEAN, shell \in MergeShells :
          Running /\ DoGetCommand(keyPath, TRUE, exportFormat, shell, "none")

SpecMerge == MergeInit /\ [][MergeNext]_vars

(* C21: every variable name of the resolved export map has no "-", no "/" *)
(* and no lower-case letter.                                              *)
C21_Clean(name) ==
    \A i \in 1..Len(name) : name[i] # DASH /\ name[i] # SLASH /\ ~(name[i] \in 97..122)

C21_NamesSanitized ==
    Resolved /\ err = "nil" => \A name \in DOMAIN ret.envVars : C21_Clean(name)

----------------------------------------------------------------------------
(* C22: a filter that ends in "/" (other than "/" itself) selects at a    *)
(* segment boundary: every key GetFilteredKeys returns for it has the     *)
(* filter, slash included, as a prefix, or is the filter without its      *)
(* slash.                                                                 *)
C22_SlashFilter == op.k1 # <<SLASH>> /\ HasSuffix(op.k1, <<SLASH>>)

C22_AtBoundary(key, filter) == HasPrefix(key, filter) \/ key \o <<SLASH>> = filter

C22_SegmentBoundary ==
    op.name = "GetFilteredKeys" /\ C22_SlashFilter
    => \A i \in 1..Len(ret.value) : C22_AtBoundary(ret.value[i], op.k1)

----------------------------------------------------------------------------
(* SpecLockFair: the processes of SpecLock under the operating system's   *)
(* scheduler.  A process that can run is run: each step of a call that    *)
(* the system can carry out is eventually carried out; a blocked flock is *)
(* granted once it stays grantable.  The failures of a step may happen    *)
(* but nothing makes them happen.                                         *)
Progress(p) == Open(p) \/ Flock(p) \/ Write(p) \/ Read(p) \/ ReadRest(p) \/ Deferred(p)

SpecLockFair == SpecLock /\ \A p \in Procs : WF_vars(Progress(p))

(* C23: no state with an unfinished call is a deadlock, and every process *)
(* that asks for the lock gets it (unless flock reports an error), and    *)
(* every call finishes with its lock released and its handle closed.      *)
C23_Finished(p) == pc[p] = "returned" /\ held[p] = "none" /\ handle[p] = "Closed"

C23_NoDeadlock == (\E p \in Procs : pc[p] # "returned") => \E p \in Procs : ENABLED Progress(p)

C23_Acquires(p) == pc[p] = "flock" ~> (held[p] # "none" \/ perr[p] = "failed to lock file")

C23_RunToCompletion ==
    /\ []C23_NoDeadlock
    /\ \A p \in Procs : C23_Acquires(p)
    /\ \A p \in Procs : <>[]C23_Finished(p)

(* every call has finished without an error, a writer and a reader among *)
(* them                                                                   *)
C23_Witness ==
    /\ \A p \in Procs : C23_Finished(p) /\ perr[p] = "nil"
    /\ \E p \in Procs : kind[p] = "write"
    /\ \E p \in Procs : kind[p] = "read"

----------------------------------------------------------------------------
(* C24: the config-mode export merges in the order prefix expansion, env  *)
(* entries, remap.  After the env step a name that env entries with a     *)
(* stored path derive carries the value of one of them, whether or not    *)
(* the prefix expansion derived it too, and every other name is as the    *)
(* prefix expansion left it.  A remap entry acts on that map: it moves    *)
(* the value of its source name, env-derived or prefix-derived, to its    *)
(* target name.                                                           *)
C24_EnvFor(name) ==
    {e \in DOMAIN crumbConfig.Env :
        NameOf(e, {DASH}) = name /\ crumbConfig.Env[e].Path \in DOMAIN secrets}

C24_EnvNames == {NameOf(e, {DASH}) : e \in {e \in DOMAIN crumbConfig.Env : C24_EnvFor(NameOf(e, {DASH})) # {}}}

C24_EnvOverPrefix ==
    /\ DOMAIN ret.afterEnv = DOMAIN ret.afterPath \cup C24_EnvNames
    /\ \A name \in DOMAIN ret.afterEnv :
          IF name \in C24_EnvNames
          THEN \E e \in C24_EnvFor(name) : ret.afterEnv[name] = secrets[crumbConfig.Env[e].Path]
          ELSE ret.afterEnv[name] = ret.afterPath[name]

C24_Renamed(from, to) ==
    /\ DOMAIN ret.envVars = (DOMAIN ret.afterEnv \ {from}) \cup {to}
    /\ ret.envVars[to] = ret.afterEnv[from]
    /\ \A name \in DOMAIN ret.envVars \ {to} : ret.envVars[name] = ret.afterEnv[name]

C24_RemapOverBoth ==
    \A k \in DOMAIN crumbConfig.PathSync.Remap :
       LET from == NameOf(k, {DASH})
           to == NameOf(crumbConfig.PathSync.Remap[k], {DASH})
       IN IF from \in DOMAIN ret.afterEnv THEN C24_Renamed(from, to)
          ELSE ret.envVars = ret.afterEnv

C24_MergeOrder == ConfigMode => C24_EnvOverPrefix /\ C24_RemapOverBoth

(* "/a/b" and "/b" under the prefix "/", the env entry a-b for "/b" and   *)
(* the remap of a-b to c: A_B is derived by both, the env value "z"       *)
(* replaces the prefix value "x", and the remap moves it to C             *)
C24_Witness ==
    /\ ConfigMode
    /\ err = "nil"
    /\ ret.afterPath = (<<65, UNDERSCORE, 66>> :> <<120>>) @@ (<<66>> :> <<122>>)
    /\ ret.afterEnv = (<<65, UNDERSCORE, 66>> :> <<122>>) @@ (<<66>> :> <<122>>)
    /\ ret.envVars = (<<67>> :> <<122>>) @@ (<<66>> :> <<122>>)

----------------------------------------------------------------------------
(* C25: the resolved export map is a function of the store and the export *)
(* input: whatever order the runtime iterates the maps in, the run        *)
(* resolves the map this run resolved.                                    *)
C25_AnyRun(pathOrder, envOrder, remapOrder) ==
    exportResolve(secrets, op.k1, crumbConfig, pathOrder, envOrder, remapOrder).envVars

C25_Deterministic ==
    Resolved =>
        \A pathOrder \in Orders(DOMAIN exportPathSecrets(secrets, op.k1, crumbConfig)) :
           \A envOrder \in Orders(IF op.k1 = <<>> THEN DOMAIN crumbConfig.Env ELSE {}) :
              \A remapOrder \in Orders(IF op.k1 = <<>> THEN DOMAIN crumbConfig.PathSync.Remap ELSE {}) :
                 C25_AnyRun(pathOrder, envOrder, remapOrder) = ret.envVars

----------------------------------------------------------------------------
(* SpecRace: two invocations of `crumb set`, each on its own path, against *)
(* one storage file.  SetCommand takes the lock twice: LoadSecrets reads   *)
(* under a shared lock and releases it, SaveSecrets writes under an        *)
(* exclusive lock.  Each of the two file accesses is one step here, as if  *)
(* its lock made it atomic; the steps of the two processes interleave.     *)
Setters == {1, 2}

(* process 1 runs `crumb set /a x`, process 2 `crumb set /a/b y` *)
SetKey(p) == IF p = 1 THEN PathA ELSE PathAB
SetValue(p) == IF p = 1 THEN ValX ELSE ValY

(* what the store holds before: any of "/b" and "/ab/c", with any values *)
RaceStores == UNION {[D -> Vals] : D \in SUBSET {PathB, PathABC}}

RaceInit ==
    /\ secrets = EmptyMap /\ op = NoOp /\ err = "nil" /\ ret = NoRet
    /\ pre \in RaceStores
    /\ file = StoreFile(pre)
    /\ saved = NotSaved
    /\ muts = 0
    /\ content = <<>>
    /\ crumbConfig = NoCrumbConfig
    /\ kind = [p \in Setters |-> "set"]
    /\ pc = [p \in Setters |-> "load"]
    /\ handle = [p \in Setters |-> "Closed"]
    /\ held = [p \in Setters |-> "none"]
    /\ buf = [p \in Setters |-> EmptyMap]
    /\ perr = [p \in Setters |-> "nil"]

raceRest == <<memVars, saved, muts, content, crumbConfig, kind, handle, held>>

(* SetCommand up to its load: LoadSecrets, and the return of its error *)
SetLoad(p, fail) ==
    /\ pc[p] = "load"
    /\ LET loaded == CmdLoad(file, CmdIdentity(fail), fail)
       IN /\ buf' = [buf EXCEPT ![p] = loaded.secrets]
          /\ perr' = [perr EXCEPT ![p] = loaded.err]
          /\ pc' = [pc EXCEPT ![p] = IF loaded.err = "nil" THEN "save" ELSE "returned"]
    /\ UNCHANGED file
    /\ UNCHANGED raceRest

(* the rest of SetCommand: SetSecret on the map it loaded, SaveSecrets.   *)
(* The path is not in the map it loaded, so there is no prompt.           *)
SetSave(p) ==
    /\ pc[p] = "save"
    /\ LET secrets1 == SetSecret(buf[p], SetKey(p), SetValue(p))
           written == SaveSecrets(secrets1, StoreKey, file, p, AnOrder(secrets1), "none", <<>>)
       IN /\ file' = written.file
          /\ perr' = [perr EXCEPT ![p] = written.err]
          /\ buf' = [buf EXCEPT ![p] = secrets1]
    /\ pc' = [pc EXCEPT ![p] = "returned"]
    /\ UNCHANGED raceRest

RaceNext ==
    \E p \in Setters :
       \/ \E fail \in CmdFails : SetLoad(p, fail)
       \/ SetSave(p)

SpecRace == RaceInit /\ [][RaceNext]_vars

(* C26: when both invocations have returned without an error, the store   *)
(* holds both paths with the values set and every path it held before,    *)
(* unchanged.                                                             *)
C26_BothSucceeded == \A p \in Setters : pc[p] = "returned" /\ perr[p] = "nil"

C26_NoLostUpdate ==
    C26_BothSucceeded =>
        /\ \A p \in Setters : SetKey(p) \in DOMAIN Stored /\ Stored[SetKey(p)] = SetValue(p)
        /\ \A path \in DOMAIN pre : path \in DOMAIN Stored /\ Stored[path] = pre[path]

----------------------------------------------------------------------------
(* C27: from the empty store, whatever set, delete, move and import       *)
(* commands have run, every path of the stored map is one ValidateKeyPath *)
(* accepts.                                                               *)
C27_StoredPathsValid == \A path \in DOMAIN Stored : ValidateKeyPath(path) = "nil"

----------------------------------------------------------------------------
(* C28: a set, delete, move or import command whose LoadSecrets fails     *)
(* returns that error and does not save: the storage file is as it was.   *)
C28_Loads(o, envVars) ==
    \/ o.name \in {"SetCommand", "DeleteCommand", "MoveCommand"}
    \/ o.name = "ImportCommand" /\ o.k1 # <<>> /\ o.fail # "envfile" /\ envVars # EmptyMap

C28_Loaded(o) == LoadSecrets(file, CmdIdentity(o.fail), IF o.fail = "read" THEN "read" ELSE "none")

C28_FailedLoadStep ==
    C28_Loads(op', pre') /\ C28_Loaded(op').err # "nil"
    => err' = C28_Loaded(op').err /\ ret'.saves = 0 /\ file' = file

C28_FailedLoadNeverWrites == [][C28_FailedLoadStep]_vars

(* a set command run with the wrong private key against a store that      *)
(* holds a secret: it returned the decryption error and the secret is     *)
(* still there                                                            *)
C28_Witness ==
    /\ op.name = "SetCommand"
    /\ op.fail = "identity"
    /\ err = "failed to decrypt secrets"
    /\ ret.saves = 0
    /\ Stored # EmptyMap

----------------------------------------------------------------------------
(* C29: SetSecret(p, v), then a successful SaveSecrets, then LoadSecrets  *)
(* with the matching key: every path other than p is in the loaded map,   *)
(* with the value it had, exactly when it was in the map before the       *)
(* SetSecret.  The step checked is the save that follows the SetSecret;   *)
(* `pre` is the map before the SetSecret and op.k1 is p.                  *)
C29_Reloaded == LoadSecrets(file', op'.id, "none")

C29_SameElsewhere(before, after, p) ==
    \A q \in (DOMAIN before \cup DOMAIN after) \ {p} :
       q \in DOMAIN before /\ q \in DOMAIN after /\ after[q] = before[q]

C29_SaveStep ==
    op.name = "SetSecret" /\ op'.name = "SaveSecrets" /\ err' = "nil"
    => C29_Reloaded.err = "nil" /\ C29_SameElsewhere(pre, C29_Reloaded.secrets, op.k1)

C29_PersistOneSecret == [][C29_SaveStep]_vars

----------------------------------------------------------------------------
(* C30: no line that `crumb export` or `crumb get --export` prints is an  *)
(* assignment to the empty name (`export =value`, `set -x  value`).       *)
C30_EmptyName(line) ==
    HasPrefix(line, ExportWord \o <<EQ>>) \/ HasPrefix(line, SetXWord \o <<SP>>)

C30_Exporting == op.name = "ExportCommand" \/ (op.name = "GetCommand" /\ op.yes)

C30_NoEmptyName ==
    C30_Exporting /\ err = "nil" => \A i \in DOMAIN ret.printed : ~C30_EmptyName(ret.printed[i])

====
